---- MODULE Spec2Model ----
(***************************************************************************)
(* Model of the pordosol command-line tool: project-root discovery, source *)
(* listing, toolchain resolution, and the build / run commands.            *)
(*                                                                         *)
(* A file name is the sequence of its dot-separated parts                  *)
(* ("programa.pr" is <<"programa", "pr">>), a path is the sequence of its  *)
(* components; the filesystem root is the empty path.  A path whose first  *)
(* component is DOT is relative to the working directory.                  *)
(***************************************************************************)
EXTENDS Integers, Sequences, FiniteSets, TLC

VARIABLES
    fs,         \* existing paths -> [kind: "file" | "exec" | "dir", mt: mtime or NoTime]
    ordem,      \* the order in which a directory read returns entry names
    env,        \* environment variables: name -> None or Some([uni, s])
    path_dirs,  \* the directories of the executable search path, in order
    exe,        \* std::env::current_exe(): None or Some(path)
    cwd,        \* working directory of the process
    clock,      \* current time
    proj,       \* parsed <root>/pordosol.proj: None or Some(document)
    diag,       \* last tool resolution: None or Some([nome, raiz, d])
    raizOut,    \* last project-root discovery: None or Some([caminho, raiz])
    lista,      \* last source listing: None or Some([raiz, walk, arquivos])
    hist,       \* the commands run so far, oldest first
    conteudo,   \* the text of the files whose content matters: path -> text
    procs       \* the dep invocations in flight: process -> what it has read

vars == <<fs, ordem, env, path_dirs, exe, cwd, clock, proj, diag, raizOut, lista, hist,
          conteudo, procs>>

----------------------------------------------------------------------------
(* Options and small helpers *)

None == <<>>
Some(x) == <<x>>
IsSome(o) == o # <<>>
Get(o) == o[1]

Min(S) == CHOOSE x \in S : \A y \in S : x <= y

\* let x = v in F(x), with v computed once.
Seja(v, F(_)) == CHOOSE r \in {F(x) : x \in {v}} : TRUE

N(s) == <<s>>
NE(s, e) == <<s, e>>
DOT == <<".">>
WS == <<" ">>
NoTime == -1

----------------------------------------------------------------------------
(* Paths *)

join(p, n) == Append(p, n)

parent(p) == IF p = <<>> THEN None ELSE Some(SubSeq(p, 1, Len(p) - 1))

file_name(p) == IF p = <<>> THEN None ELSE Some(p[Len(p)])

\* Path::extension: the part after the last dot of the file name; none when
\* the name has no dot or only a leading one.
extension(p) ==
    IF p = <<>> THEN None
    ELSE LET n == p[Len(p)] IN
         IF Len(n) >= 2 /\ ~(Len(n) = 2 /\ n[1] = "") THEN Some(n[Len(n)]) ELSE None

\* Path::file_stem: the file name without its extension.
file_stem(p) ==
    IF p = <<>> THEN None
    ELSE LET n == p[Len(p)] IN
         IF Len(n) >= 2 /\ ~(Len(n) = 2 /\ n[1] = "")
         THEN Some(SubSeq(n, 1, Len(n) - 1)) ELSE Some(n)

\* Absolutize::absolutize: a relative path is resolved against the working directory.
absolutize(c, p) == IF p # <<>> /\ p[1] = DOT THEN c \o Tail(p) ELSE p

IsProperPrefix(p, q) == Len(p) < Len(q) /\ SubSeq(q, 1, Len(p)) = p

----------------------------------------------------------------------------
(* Filesystem probes.  A directory exists when it has an entry of its own  *)
(* or when some existing path lies below it.                               *)

kind(f, c, p) ==
    LET a == absolutize(c, p) IN
    IF a \in DOMAIN f THEN f[a].kind
    ELSE IF \E q \in DOMAIN f : IsProperPrefix(a, q) THEN "dir"
    ELSE "none"

is_file(f, c, p) == kind(f, c, p) \in {"file", "exec"}
is_dir(f, c, p) == kind(f, c, p) = "dir"
exists(f, c, p) == kind(f, c, p) # "none"

\* metadata().ok().and_then(|m| m.modified().ok())
modified(f, c, p) ==
    LET a == absolutize(c, p) IN
    IF a \in DOMAIN f /\ f[a].mt # NoTime THEN Some(f[a].mt) ELSE None

----------------------------------------------------------------------------
(* Environment *)

RECURSIVE trim_start(_, _)
trim_start(s, w) == IF s # <<>> /\ Head(s) = w THEN trim_start(Tail(s), w) ELSE s

RECURSIVE trim_end(_, _)
trim_end(s, w) ==
    IF s # <<>> /\ s[Len(s)] = w THEN trim_end(SubSeq(s, 1, Len(s) - 1), w) ELSE s

\* str::trim on the value of a variable, whose whitespace is the token WS.
trim(s) == trim_end(trim_start(s, WS), WS)

\* A reader that forgets to trim the value.
ler_env_path_sem_trim(e, nome) ==
    IF ~IsSome(e[nome]) \/ ~Get(e[nome]).uni THEN None
    ELSE IF Get(e[nome]).s = <<>> THEN None ELSE Some(Get(e[nome]).s)

\* std::env::var fails on an unset variable and on a value that is not Unicode;
\* the value is trimmed and an empty one counts as unset.
ler_env_path(e, nome) ==
    IF ~IsSome(e[nome]) \/ ~Get(e[nome]).uni THEN None
    ELSE LET valor == trim(Get(e[nome]).s) IN
         IF valor = <<>> THEN None ELSE Some(valor)

----------------------------------------------------------------------------
(* Toolchain resolution (toolchain.rs) *)

NiveisLib == 6

ok(nome, caminho, origem) ==
    [nome |-> nome, caminho |-> caminho, origem |-> origem, encontrado |-> TRUE]

falha(nome, caminho, origem) ==
    [nome |-> nome, caminho |-> caminho, origem |-> origem, encontrado |-> FALSE]

\* cfg!(windows) is false in the modelled build: the name gets no suffix.
nome_executavel(nome) == N(nome)

caminhos_tools_instalacao(x, nome) ==
    IF ~IsSome(x) \/ ~IsSome(parent(Get(x))) THEN <<>>
    ELSE LET base == Get(parent(Get(x))) IN
         <<join(join(base, N("tools")), nome)>> \o
         (IF IsSome(parent(base))
          THEN <<join(join(Get(parent(base)), N("tools")), nome)>>
          ELSE <<>>)

caminho_pordosol_home_tools(e, nome) ==
    LET home == ler_env_path(e, "PORDOSOL_HOME") IN
    IF IsSome(home) THEN Some(join(join(Get(home), N("tools")), nome)) ELSE None

RECURSIVE candidatos_lib_loop(_, _, _)
candidatos_lib_loop(atual, nome_exec, n) ==
    IF n = 0 THEN <<>>
    ELSE <<join(join(atual, N("lib")), nome_exec)>> \o
         (IF IsSome(parent(atual))
          THEN candidatos_lib_loop(Get(parent(atual)), nome_exec, n - 1)
          ELSE <<>>)

\* A fallback that looks one level further up.
candidatos_lib_local_sete(raiz, nome_exec) == candidatos_lib_loop(raiz, nome_exec, NiveisLib + 1)

candidatos_lib_local(raiz, nome_exec) == candidatos_lib_loop(raiz, nome_exec, NiveisLib)

\* A search that takes the first directory of the search path unseen.
which_sem_verificar(f, c, pd, nome) == IF pd = <<>> THEN None ELSE Some(join(pd[1], nome))

\* which::which: the first directory of the search path that holds an
\* executable regular file of that name.
which(f, c, pd, nome) ==
    LET I == {i \in 1..Len(pd) : kind(f, c, join(pd[i], nome)) = "exec"} IN
    IF I = {} THEN None ELSE Some(join(pd[Min(I)], nome))

\* A tier that prefers its last valid candidate.
primeiro_arquivo_invertido(f, c, ps) ==
    LET I == {i \in 1..Len(ps) : is_file(f, c, ps[i])} IN
    IF I = {} THEN 0 ELSE CHOOSE i \in I : \A j \in I : j <= i

\* Index of the first candidate of a tier that is a regular file, 0 when none is.
primeiro_arquivo(f, c, ps) ==
    LET I == {i \in 1..Len(ps) : is_file(f, c, ps[i])} IN
    IF I = {} THEN 0 ELSE Min(I)

\* A resolver that keeps the last failure instead of the first.
get_or_insert_ultimo(o, d) == Some(d)

get_or_insert(o, d) == IF IsSome(o) THEN o ELSE Some(d)

localizar_executavel(f, c, e, x, pd, nome_base, variavel_env, raiz) ==
    LET nome_exec == nome_executavel(nome_base)
        envp == ler_env_path(e, variavel_env)
        pf1 == IF IsSome(envp)
               THEN Some(falha(nome_base, Get(envp), "env:" \o variavel_env \o " (invalido)"))
               ELSE None
        inst == caminhos_tools_instalacao(x, nome_exec)
        i2 == primeiro_arquivo(f, c, inst)
        pf2 == IF inst # <<>>
               THEN get_or_insert(pf1, falha(nome_base, inst[1], "instalacao-cli/tools (ausente)"))
               ELSE pf1
        home == caminho_pordosol_home_tools(e, nome_exec)
        pf3 == IF IsSome(home)
               THEN get_or_insert(pf2, falha(nome_base, Get(home), "env:PORDOSOL_HOME/tools (ausente)"))
               ELSE pf2
        w == which(f, c, pd, nome_exec)
        pf4 == get_or_insert(pf3, falha(nome_base, <<DOT, nome_exec>>, "PATH"))
        libs == candidatos_lib_local(raiz, nome_exec)
        i5 == primeiro_arquivo(f, c, libs)
        pf5 == IF libs # <<>>
               THEN get_or_insert(pf4, falha(nome_base, libs[1], "fallback:./lib (ausente)"))
               ELSE pf4
    IN  IF IsSome(envp) /\ is_file(f, c, Get(envp))
        THEN ok(nome_base, Get(envp), "env:" \o variavel_env)
        ELSE IF i2 # 0 THEN ok(nome_base, inst[i2], "instalacao-cli/tools")
        ELSE IF IsSome(home) /\ is_file(f, c, Get(home))
        THEN ok(nome_base, Get(home), "env:PORDOSOL_HOME/tools")
        ELSE IF IsSome(w) THEN ok(nome_base, Get(w), "PATH")
        ELSE IF i5 # 0 THEN ok(nome_base, libs[i5], "fallback:./lib")
        ELSE IF IsSome(pf5) THEN Get(pf5)
        ELSE falha(nome_base, <<DOT, nome_exec>>, "nao resolvido")

VarDe(nome_base) ==
    IF nome_base = "compilador" THEN "PORDOSOL_COMPILADOR_PATH"
    ELSE "PORDOSOL_INTERPRETADOR_PATH"

NiveisStdlib == 6

nome_stdlib == N("stdlib")
nome_sistema_padrao == N("sistema-padrao")
nome_sistema_toml == NE("Sistema", "toml")

\* A validation that accepts any existing directory.
eh_stdlib_valida_qualquer(f, c, path) == is_dir(f, c, path)

eh_stdlib_valida(f, c, path) ==
    /\ is_dir(f, c, path)
    /\ \/ is_file(f, c, join(path, nome_sistema_toml))
       \/ is_dir(f, c, join(path, N("src")))

RECURSIVE candidatos_stdlib_loop(_, _)
candidatos_stdlib_loop(atual, n) ==
    IF n = 0 THEN <<>>
    ELSE <<join(join(atual, N("lib")), nome_stdlib),
           join(join(atual, N("lib")), nome_sistema_padrao),
           join(atual, nome_stdlib),
           join(atual, nome_sistema_padrao)>> \o
         (IF IsSome(parent(atual))
          THEN candidatos_stdlib_loop(Get(parent(atual)), n - 1)
          ELSE <<>>)

candidatos_stdlib_local(raiz) == candidatos_stdlib_loop(raiz, NiveisStdlib)

\* One candidate of the standard-library search: its path, the origin it
\* is reported with when accepted, and the origin of the failure it records
\* when rejected (None when it records none).
Tentativa(caminho, origem, ausente) ==
    [caminho |-> caminho, origem |-> origem, ausente |-> ausente]

tentativas_env(e, var) ==
    IF IsSome(ler_env_path(e, var))
    THEN <<Tentativa(Get(ler_env_path(e, var)), "env:" \o var,
                     Some("env:" \o var \o " (invalido)"))>>
    ELSE <<>>

tentativas_instalacao(x, candidato) ==
    LET ps == caminhos_tools_instalacao(x, candidato) IN
    [i \in 1..Len(ps) |->
        Tentativa(ps[i], "instalacao-cli/tools/" \o candidato[1],
                  Some("instalacao-cli/tools/" \o candidato[1] \o " (ausente)"))]

tentativas_home(e) ==
    IF IsSome(caminho_pordosol_home_tools(e, nome_stdlib))
    THEN <<Tentativa(Get(caminho_pordosol_home_tools(e, nome_stdlib)),
                     "env:PORDOSOL_HOME/tools/stdlib",
                     Some("env:PORDOSOL_HOME/tools/stdlib (ausente)")),
           Tentativa(Get(caminho_pordosol_home_tools(e, nome_sistema_padrao)),
                     "env:PORDOSOL_HOME/tools/sistema-padrao", None)>>
    ELSE <<>>

tentativas_local(raiz) ==
    LET ps == candidatos_stdlib_local(raiz) IN
    [i \in 1..Len(ps) |-> Tentativa(ps[i], "fallback:local", Some("fallback:local (ausente)"))]

\* The candidates of localizar_stdlib_diagnostico in the order it tries them.
tentativas_stdlib(e, x, raiz) ==
    tentativas_env(e, "PORDOSOL_STDLIB_PATH")
        \o tentativas_env(e, "PORDOSOL_BIBLIOTECA_PADRAO_PATH")
        \o tentativas_instalacao(x, nome_stdlib)
        \o tentativas_instalacao(x, nome_sistema_padrao)
        \o tentativas_home(e)
        \o tentativas_local(raiz)

\* The first accepted candidate; else the failure of the first rejected
\* candidate that records one; else "nao resolvido".
localizar_stdlib_diagnostico(f, c, e, x, raiz) ==
    Seja(tentativas_stdlib(e, x, raiz), LAMBDA ts :
        LET V == {i \in 1..Len(ts) : eh_stdlib_valida(f, c, ts[i].caminho)}
            F == {i \in 1..Len(ts) : IsSome(ts[i].ausente)}
        IN  IF V # {} THEN ok("biblioteca padrao", ts[Min(V)].caminho, ts[Min(V)].origem)
            ELSE IF F # {}
            THEN falha("biblioteca padrao", ts[Min(F)].caminho, Get(ts[Min(F)].ausente))
            ELSE falha("biblioteca padrao", join(raiz, nome_sistema_padrao), "nao resolvido"))

diagnosticar_toolchain(f, c, e, x, pd, raiz) ==
    [compilador |->
        localizar_executavel(f, c, e, x, pd, "compilador", "PORDOSOL_COMPILADOR_PATH", raiz),
     interpretador |->
        localizar_executavel(f, c, e, x, pd, "interpretador", "PORDOSOL_INTERPRETADOR_PATH", raiz),
     stdlib |-> localizar_stdlib_diagnostico(f, c, e, x, raiz)]

\* DiagnosticoToolchain::pronto
pronto(d) == d.compilador.encontrado /\ d.interpretador.encontrado /\ d.stdlib.encontrado

\* The paths of the compiler and interpreter descriptors of
\* diagnosticar_toolchain; its stdlib descriptor is dropped.
localizar_binarios(f, c, e, x, pd, raiz) ==
    <<localizar_executavel(f, c, e, x, pd, "compilador", "PORDOSOL_COMPILADOR_PATH",
                           raiz).caminho,
      localizar_executavel(f, c, e, x, pd, "interpretador", "PORDOSOL_INTERPRETADOR_PATH",
                           raiz).caminho>>

----------------------------------------------------------------------------
(* Project root and source listing (toolchain.rs) *)

NiveisRaiz == 5

nome_src == N("src")
programa_pr == NE("programa", "pr")

RECURSIVE localizar_raiz_loop(_, _, _, _)
localizar_raiz_loop(f, p, n, senao) ==
    IF n = 0 THEN senao
    ELSE IF is_dir(f, <<>>, join(p, nome_src)) THEN p
    ELSE IF IsSome(parent(p)) THEN localizar_raiz_loop(f, Get(parent(p)), n - 1, senao)
    ELSE senao

\* A root that degenerates to the directory of the input.
localizar_raiz_pai(f, c, caminho) ==
    LET abs == absolutize(c, caminho)
        p == IF is_file(f, c, abs) /\ IsSome(parent(abs)) THEN Get(parent(abs)) ELSE abs
    IN localizar_raiz_loop(f, p, NiveisRaiz, p)

localizar_raiz(f, c, caminho) ==
    LET abs == absolutize(c, caminho)
        p == IF is_file(f, c, abs) /\ IsSome(parent(abs)) THEN Get(parent(abs)) ELSE abs
    IN localizar_raiz_loop(f, p, NiveisRaiz, abs)

\* WalkDir: the directory itself, then its entries in directory-read order,
\* each directory followed by its own contents.
RECURSIVE walk(_, _, _), walk_filhos(_, _, _, _)
walk(f, o, p) == <<p>> \o (IF is_dir(f, <<>>, p) THEN walk_filhos(f, o, p, 1) ELSE <<>>)
walk_filhos(f, o, p, i) ==
    IF i > Len(o) THEN <<>>
    ELSE (IF exists(f, <<>>, join(p, o[i])) THEN walk(f, o, join(p, o[i])) ELSE <<>>)
         \o walk_filhos(f, o, p, i + 1)

\* The entries WalkDir yields without error: none when the top does not exist.
walkdir(f, o, p) == IF exists(f, <<>>, p) THEN walk(f, o, p) ELSE <<>>

posicao(s, x) ==
    LET I == {i \in 1..Len(s) : s[i] = x} IN IF I = {} THEN 0 ELSE Min(I)

remover(s, i) == SubSeq(s, 1, i - 1) \o SubSeq(s, i + 1, Len(s))

\* A listing that prefers any file named programa.pr, wherever it is.
listar_prs_por_nome(f, o, raiz) ==
    LET src == join(raiz, nome_src)
        eh_pr(p) == is_file(f, <<>>, p) /\ extension(p) = Some("pr")
        arquivos == SelectSeq(walkdir(f, o, src), eh_pr)
        I == {i \in 1..Len(arquivos) : file_name(arquivos[i]) = Some(programa_pr)}
    IN  IF I # {} THEN <<arquivos[Min(I)]>> \o remover(arquivos, Min(I)) ELSE arquivos

listar_prs(f, o, raiz) ==
    LET src == join(raiz, nome_src)
        eh_pr(p) == is_file(f, <<>>, p) /\ extension(p) = Some("pr")
        arquivos == SelectSeq(walkdir(f, o, src), eh_pr)
        preferido == join(src, programa_pr)
        pos == posicao(arquivos, preferido)
    IN  IF pos # 0 THEN <<arquivos[pos]>> \o remover(arquivos, pos) ELSE arquivos

----------------------------------------------------------------------------
(* Subprocesses and the build directory *)

\* fs::create_dir_all(..).ok(): the directory is created unless it exists or
\* something on the way is a file; the error is dropped.
create_dir_all(f, c, p, t) ==
    IF exists(f, c, p) \/ \E i \in 1..Len(p) : is_file(f, c, SubSeq(p, 1, i)) THEN f
    ELSE (p :> [kind |-> "dir", mt |-> t]) @@ f

\* Command::status: a name without a directory is searched on the search
\* path; a program that is no executable file, or a working directory that
\* is no directory, fails to launch; otherwise the child decides (o).
lancar(f, c, pd, bin, dir, o) ==
    LET alvo == IF Len(bin) = 2 /\ bin[1] = DOT THEN which(f, c, pd, bin[2]) ELSE Some(bin) IN
    IF ~IsSome(alvo) \/ kind(f, c, Get(alvo)) # "exec" THEN "nolaunch"
    ELSE IF IsSome(dir) /\ ~is_dir(f, c, Get(dir)) THEN "nolaunch"
    ELSE o

nome_pbc(p) ==
    Append(IF IsSome(file_stem(p)) THEN Get(file_stem(p)) ELSE <<"">>, "pbc")

\* A successful compiler leaves <stem>.pbc in its working directory for each
\* .pr argument, written at the current time.
RECURSIVE escrever_pbc(_, _, _, _)
escrever_pbc(f, dir, fontes, t) ==
    IF fontes = <<>> THEN f
    ELSE IF extension(Head(fontes)) = Some("pr")
         THEN (join(dir, nome_pbc(Head(fontes))) :> [kind |-> "file", mt |-> t])
                  @@ escrever_pbc(f, dir, Tail(fontes), t)
         ELSE escrever_pbc(f, dir, Tail(fontes), t)

----------------------------------------------------------------------------
(* run (executar.rs) *)

\* A decision that recompiles even when only an artifact was asked for.
precisa_compilar_sem_pbc(f, c, somente_pbc, no_build, force, pbc, fontes) ==
    /\ ~no_build
    /\ \/ force
       \/ ~exists(f, c, pbc)
       \/ \E i \in 1..Len(fontes) :
             IF IsSome(modified(f, c, pbc)) /\ IsSome(modified(f, c, fontes[i]))
             THEN Get(modified(f, c, fontes[i])) > Get(modified(f, c, pbc))
             ELSE TRUE

\* A decision that takes an unreadable modification time for "up to date".
precisa_compilar_ilegivel(f, c, somente_pbc, no_build, force, pbc, fontes) ==
    /\ ~somente_pbc
    /\ ~no_build
    /\ \/ force
       \/ ~exists(f, c, pbc)
       \/ \E i \in 1..Len(fontes) :
             IF IsSome(modified(f, c, pbc)) /\ IsSome(modified(f, c, fontes[i]))
             THEN Get(modified(f, c, fontes[i])) > Get(modified(f, c, pbc))
             ELSE FALSE

\* A decision that forgets the --no-build flag.
precisa_compilar_sem_no_build(f, c, somente_pbc, no_build, force, pbc, fontes) ==
    /\ ~somente_pbc
    /\ \/ force
       \/ ~exists(f, c, pbc)
       \/ \E i \in 1..Len(fontes) :
             IF IsSome(modified(f, c, pbc)) /\ IsSome(modified(f, c, fontes[i]))
             THEN Get(modified(f, c, fontes[i])) > Get(modified(f, c, pbc))
             ELSE TRUE

\* A decision that rebuilds when a source is as old as the artifact.
precisa_compilar_igual(f, c, somente_pbc, no_build, force, pbc, fontes) ==
    /\ ~somente_pbc
    /\ ~no_build
    /\ \/ force
       \/ ~exists(f, c, pbc)
       \/ \E i \in 1..Len(fontes) :
             IF IsSome(modified(f, c, pbc)) /\ IsSome(modified(f, c, fontes[i]))
             THEN Get(modified(f, c, fontes[i])) >= Get(modified(f, c, pbc))
             ELSE TRUE

precisa_compilar(f, c, somente_pbc, no_build, force, pbc, fontes) ==
    /\ ~somente_pbc
    /\ ~no_build
    /\ \/ force
       \/ ~exists(f, c, pbc)
       \/ \E i \in 1..Len(fontes) :
             IF IsSome(modified(f, c, pbc)) /\ IsSome(modified(f, c, fontes[i]))
             THEN Get(modified(f, c, fontes[i])) > Get(modified(f, c, pbc))
             ELSE TRUE

Lanc(prog, bin, flag, arqs, status, aviso) ==
    [prog |-> prog, bin |-> bin, flag |-> flag, arqs |-> arqs, status |-> status,
     aviso |-> aviso]

\* What a command leaves behind: its result, the subprocesses it started,
\* the filesystem afterwards, and what it computed on the way.
Fim(res, lancados, f, raiz, fontes, tc, pbc, precisa) ==
    [res |-> res, lancados |-> lancados, fs |-> f, raiz |-> raiz, fontes |-> fontes,
     tc |-> tc, pbc |-> pbc, precisa |-> precisa]

\* The sources of a run.
fontes_de_run(f, c, o, raiz, caminho, arquivo) ==
    LET somente_pbc == IsSome(arquivo) /\ extension(Get(arquivo)) = Some("pbc")
        arquivo_pr == IsSome(arquivo) /\ extension(Get(arquivo)) = Some("pr")
        caminho_pr == is_file(f, c, caminho) /\ extension(caminho) = Some("pr")
    IN  IF somente_pbc THEN listar_prs(f, o, raiz)
        ELSE IF arquivo_pr THEN <<absolutize(c, Get(arquivo))>>
        ELSE IF IsSome(arquivo) THEN listar_prs(f, o, raiz)
        ELSE IF caminho_pr THEN <<absolutize(c, caminho)>>
        ELSE listar_prs(f, o, raiz)

\* An artifact named after the last source of the list.
pbc_de_run_ultimo(saida_dir, arquivo, fontes) ==
    IF IsSome(arquivo) /\ extension(Get(arquivo)) = Some("pbc") THEN Get(arquivo)
    ELSE IF IsSome(arquivo) /\ extension(Get(arquivo)) = Some("pr")
    THEN join(saida_dir, nome_pbc(Get(arquivo)))
    ELSE IF IsSome(arquivo) THEN Get(arquivo)
    ELSE join(saida_dir, nome_pbc(fontes[Len(fontes)]))

\* The artifact of a run.
pbc_de_run(saida_dir, arquivo, fontes) ==
    IF IsSome(arquivo) /\ extension(Get(arquivo)) = Some("pbc") THEN Get(arquivo)
    ELSE IF IsSome(arquivo) /\ extension(Get(arquivo)) = Some("pr")
    THEN join(saida_dir, nome_pbc(Get(arquivo)))
    ELSE IF IsSome(arquivo) THEN Get(arquivo)
    ELSE join(saida_dir, nome_pbc(fontes[1]))

\* A run that goes on to the interpreter after a failed compilation.
run_decidido_sem_parar(f1, c, pd, t, raiz, fontes, tc, bins, pbc, precisa, no_build, oc, oi) ==
    Seja(lancar(f1, c, pd, bins[1], Some(join(raiz, N("build"))), oc), LAMBDA sc :
    Seja(Lanc("compilador", bins[1], "--target=bytecode", fontes, sc, FALSE), LAMBDA lc :
        IF precisa /\ sc = "nolaunch"
        THEN Fim("falha_ao_executar_compilador", <<lc>>, f1, raiz, fontes, Some(tc),
                 Some(pbc), Some(precisa))
        ELSE IF FALSE
        THEN Fim("compilacao_falhou", <<lc>>, f1, raiz, fontes, Some(tc),
                 Some(pbc), Some(precisa))
        ELSE
    Seja(IF precisa THEN escrever_pbc(f1, join(raiz, N("build")), fontes, t) ELSE f1,
         LAMBDA f3 :
    Seja(IF precisa THEN <<lc>> ELSE <<>>, LAMBDA antes :
        IF no_build /\ ~exists(f3, c, pbc)
        THEN Fim("bytecode_nao_encontrado", antes, f3, raiz, fontes, Some(tc),
                 Some(pbc), Some(precisa))
        ELSE
    Seja(lancar(f3, c, pd, bins[2], None, oi), LAMBDA si :
    Seja(Lanc("interpretador", bins[2], "", <<pbc>>, si, FALSE), LAMBDA li :
        IF si = "nolaunch"
        THEN Fim("falha_ao_executar_interpretador", antes \o <<li>>, f3, raiz, fontes,
                 Some(tc), Some(pbc), Some(precisa))
        ELSE IF si = "fail"
        THEN Fim("execucao_falhou", antes \o <<li>>, f3, raiz, fontes, Some(tc),
                 Some(pbc), Some(precisa))
        ELSE Fim("ok", antes \o <<li>>, f3, raiz, fontes, Some(tc), Some(pbc),
                 Some(precisa))))))))

\* The run from the compiler launch on, on the filesystem f1 that has the
\* build directory.
run_decidido(f1, c, pd, t, raiz, fontes, tc, bins, pbc, precisa, no_build, oc, oi) ==
    Seja(lancar(f1, c, pd, bins[1], Some(join(raiz, N("build"))), oc), LAMBDA sc :
    Seja(Lanc("compilador", bins[1], "--target=bytecode", fontes, sc, FALSE), LAMBDA lc :
        IF precisa /\ sc = "nolaunch"
        THEN Fim("falha_ao_executar_compilador", <<lc>>, f1, raiz, fontes, Some(tc),
                 Some(pbc), Some(precisa))
        ELSE IF precisa /\ sc = "fail"
        THEN Fim("compilacao_falhou", <<lc>>, f1, raiz, fontes, Some(tc),
                 Some(pbc), Some(precisa))
        ELSE
    Seja(IF precisa THEN escrever_pbc(f1, join(raiz, N("build")), fontes, t) ELSE f1,
         LAMBDA f3 :
    Seja(IF precisa THEN <<lc>> ELSE <<>>, LAMBDA antes :
        IF no_build /\ ~exists(f3, c, pbc)
        THEN Fim("bytecode_nao_encontrado", antes, f3, raiz, fontes, Some(tc),
                 Some(pbc), Some(precisa))
        ELSE
    Seja(lancar(f3, c, pd, bins[2], None, oi), LAMBDA si :
    Seja(Lanc("interpretador", bins[2], "", <<pbc>>, si, FALSE), LAMBDA li :
        IF si = "nolaunch"
        THEN Fim("falha_ao_executar_interpretador", antes \o <<li>>, f3, raiz, fontes,
                 Some(tc), Some(pbc), Some(precisa))
        ELSE IF si = "fail"
        THEN Fim("execucao_falhou", antes \o <<li>>, f3, raiz, fontes, Some(tc),
                 Some(pbc), Some(precisa))
        ELSE Fim("ok", antes \o <<li>>, f3, raiz, fontes, Some(tc), Some(pbc),
                 Some(precisa))))))))

\* The run from the toolchain check to the rebuild decision.
run_com_fontes(f, c, e, x, pd, t, raiz, fontes, force, arquivo, no_build, oc, oi) ==
    Seja(diagnosticar_toolchain(f, c, e, x, pd, raiz), LAMBDA tc :
    Seja(localizar_binarios(f, c, e, x, pd, raiz), LAMBDA bins :
        IF ~exists(f, c, bins[1])
        THEN Fim("compilador_nao_encontrado", <<>>, f, raiz, fontes, Some(tc), None, None)
        ELSE IF ~exists(f, c, bins[2])
        THEN Fim("interpretador_nao_encontrado", <<>>, f, raiz, fontes, Some(tc), None, None)
        ELSE
    Seja(create_dir_all(f, c, join(raiz, N("build")), t), LAMBDA f1 :
    Seja(pbc_de_run(join(raiz, N("build")), arquivo, fontes), LAMBDA pbc :
    Seja(precisa_compilar(f1, c,
                          IsSome(arquivo) /\ extension(Get(arquivo)) = Some("pbc"),
                          no_build, force, pbc, fontes), LAMBDA precisa :
        run_decidido(f1, c, pd, t, raiz, fontes, tc, bins, pbc, precisa,
                     no_build, oc, oi))))))

\* A run that asks for sources whatever artifact was given.
run_unificado_exige_fontes(f, c, e, x, pd, o, t, caminho, force, arquivo, no_build, oc, oi) ==
    Seja(localizar_raiz(f, c, caminho), LAMBDA raiz :
    Seja(fontes_de_run(f, c, o, raiz, caminho, arquivo), LAMBDA fontes :
        IF /\ ~(is_file(f, c, caminho) /\ extension(caminho) = Some("pr"))
           /\ fontes = <<>>
        THEN Fim("sem_fontes", <<>>, f, raiz, fontes, None, None, None)
        ELSE run_com_fontes(f, c, e, x, pd, t, raiz, fontes, force, arquivo,
                            no_build, oc, oi)))

run_unificado(f, c, e, x, pd, o, t, caminho, force, arquivo, no_build, oc, oi) ==
    Seja(localizar_raiz(f, c, caminho), LAMBDA raiz :
    Seja(fontes_de_run(f, c, o, raiz, caminho, arquivo), LAMBDA fontes :
        IF /\ ~IsSome(arquivo)
           /\ ~(is_file(f, c, caminho) /\ extension(caminho) = Some("pr"))
           /\ fontes = <<>>
        THEN Fim("sem_fontes", <<>>, f, raiz, fontes, None, None, None)
        ELSE run_com_fontes(f, c, e, x, pd, t, raiz, fontes, force, arquivo,
                            no_build, oc, oi)))

----------------------------------------------------------------------------
(* build (construir.rs).  A target is the sequence of its characters. *)

Maiusculas ==
    <<"A", "B", "C", "D", "E", "F", "G", "H", "I", "J", "K", "L", "M",
      "N", "O", "P", "Q", "R", "S", "T", "U", "V", "W", "X", "Y", "Z">>

Minusculas ==
    <<"a", "b", "c", "d", "e", "f", "g", "h", "i", "j", "k", "l", "m",
      "n", "o", "p", "q", "r", "s", "t", "u", "v", "w", "x", "y", "z">>

to_ascii_lowercase(s) ==
    [i \in 1..Len(s) |->
        IF \E k \in 1..Len(Maiusculas) : Maiusculas[k] = s[i]
        THEN Minusculas[CHOOSE k \in 1..Len(Maiusculas) : Maiusculas[k] = s[i]]
        ELSE s[i]]

trim_str(s) == trim_end(trim_start(s, " "), " ")

T_bytecode == <<"b", "y", "t", "e", "c", "o", "d", "e">>
T_bc == <<"b", "c">>
T_llvm == <<"l", "l", "v", "m">>
T_llvm_ir == <<"l", "l", "v", "m", "-", "i", "r">>
T_cil == <<"c", "i", "l", "-", "b", "y", "t", "e", "c", "o", "d", "e">>
T_console == <<"c", "o", "n", "s", "o", "l", "e">>
T_universal == <<"u", "n", "i", "v", "e", "r", "s", "a", "l">>

\* A mapping that forgets to trim and to lower-case.
alvo_flag_sem_normalizar(target_final) ==
    LET tnorm == target_final IN
    IF tnorm = T_bytecode \/ tnorm = T_bc THEN "--target=bytecode"
    ELSE IF tnorm = T_llvm \/ tnorm = T_llvm_ir THEN "--target=llvm-ir"
    ELSE IF tnorm = T_cil THEN "--target=cil-bytecode"
    ELSE IF tnorm = T_console THEN "--target=console"
    ELSE IF tnorm = T_universal THEN "--target=universal"
    ELSE "--target=bytecode"

alvo_flag(target_final) ==
    LET tnorm == to_ascii_lowercase(trim_str(target_final)) IN
    IF tnorm = T_bytecode \/ tnorm = T_bc THEN "--target=bytecode"
    ELSE IF tnorm = T_llvm \/ tnorm = T_llvm_ir THEN "--target=llvm-ir"
    ELSE IF tnorm = T_cil THEN "--target=cil-bytecode"
    ELSE IF tnorm = T_console THEN "--target=console"
    ELSE IF tnorm = T_universal THEN "--target=universal"
    ELSE "--target=bytecode"

\* The `other` arm of the match: the target is none of the known ones and the
\* warning "Alvo desconhecido" is printed.
alvo_desconhecido(target_final) ==
    to_ascii_lowercase(trim_str(target_final))
        \notin {T_bytecode, T_bc, T_llvm, T_llvm_ir, T_cil, T_console, T_universal}

target_final_normalizado(config, target) ==
    IF alvo_flag(target) = "--target=bytecode" /\ IsSome(config)
    THEN IF IsSome(Get(config).target_padrao) THEN Get(Get(config).target_padrao) ELSE target
    ELSE target

\* The manifest's configuracao.target_padrao replaces a target of "bytecode".
target_final(config, target) ==
    IF target = T_bytecode /\ IsSome(config)
    THEN IF IsSome(Get(config).target_padrao) THEN Get(Get(config).target_padrao) ELSE target
    ELSE target

\* The build from the toolchain check on.
compilar_com_fontes(f, c, e, x, pd, t, config, raiz, arquivos, target, saida, oc) ==
    Seja(diagnosticar_toolchain(f, c, e, x, pd, raiz), LAMBDA tc :
    Seja(localizar_binarios(f, c, e, x, pd, raiz), LAMBDA bins :
        IF ~exists(f, c, bins[1])
        THEN Fim("compilador_nao_encontrado", <<>>, f, raiz, arquivos, Some(tc), None, None)
        ELSE
    Seja(IF IsSome(saida) THEN Get(saida) ELSE join(raiz, N("build")), LAMBDA saida_dir :
    Seja(create_dir_all(f, c, saida_dir, t), LAMBDA f1 :
    Seja(lancar(f1, c, pd, bins[1], Some(saida_dir), oc), LAMBDA sc :
    Seja(Lanc("compilador", bins[1], alvo_flag(target_final(config, target)), arquivos, sc,
              alvo_desconhecido(target_final(config, target))),
         LAMBDA lc :
        IF sc = "nolaunch"
        THEN Fim("falha_ao_executar_compilador", <<lc>>, f1, raiz, arquivos, Some(tc),
                 None, None)
        ELSE IF sc = "fail"
        THEN Fim("compilacao_falhou", <<lc>>, f1, raiz, arquivos, Some(tc), None, None)
        ELSE Fim("ok", <<lc>>, escrever_pbc(f1, saida_dir, arquivos, t), raiz, arquivos,
                 Some(tc), None, None)))))))

compilar_cmd(f, c, e, x, pd, o, t, config, caminho, target, saida, oc) ==
    Seja(localizar_raiz(f, c, caminho), LAMBDA raiz :
    Seja(IF is_file(f, c, caminho) /\ extension(caminho) = Some("pr")
         THEN <<absolutize(c, caminho)>> ELSE listar_prs(f, o, raiz), LAMBDA arquivos :
        IF ~(is_file(f, c, caminho) /\ extension(caminho) = Some("pr")) /\ arquivos = <<>>
        THEN Fim("sem_fontes", <<>>, f, raiz, arquivos, None, None, None)
        ELSE compilar_com_fontes(f, c, e, x, pd, t, config, raiz, arquivos, target,
                                 saida, oc)))

----------------------------------------------------------------------------
(* The world of the resolution specification *)

Ferramentas == {"compilador", "interpretador"}
EnvNames ==
    {"PORDOSOL_COMPILADOR_PATH", "PORDOSOL_INTERPRETADOR_PATH", "PORDOSOL_HOME",
     "PORDOSOL_STDLIB_PATH", "PORDOSOL_BIBLIOTECA_PADRAO_PATH"}

RaizT == <<N("w"), N("p")>>
ExeT == <<N("opt"), N("bin"), N("pordosol")>>
HomeT == <<N("home")>>
UsrT == <<N("usr")>>
XC == <<N("x"), N("cc")>>
XI == <<N("x"), N("ii")>>

Raw(s) == Some([uni |-> TRUE, s |-> s])

arquivo0 == [kind |-> "file", mt |-> 0]
exec0 == [kind |-> "exec", mt |-> 0]
dir0 == [kind |-> "dir", mt |-> 0]

\* Places where a plain file may or may not exist.
LugaresArquivo ==
    {join(join(<<N("opt"), N("bin")>>, N("tools")), N("compilador")),
     join(join(<<N("opt")>>, N("tools")), N("compilador")),
     join(join(HomeT, N("tools")), N("compilador")),
     join(join(RaizT, N("lib")), N("compilador")),
     join(join(<<N("w")>>, N("lib")), N("compilador")),
     join(join(<<>>, N("lib")), N("compilador")),
     XI}

\* The filesystem g with the entry a at path p.
Com(g, p, a) == (p :> a) @@ g

InitResto ==
    /\ clock = 0
    /\ proj = None
    /\ diag = None
    /\ raizOut = None
    /\ lista = None
    /\ hist = <<>>
    /\ conteudo = <<>>
    /\ procs = <<>>

InitTool ==
    /\ \E A \in SUBSET LugaresArquivo :
       \E kx \in {"none", "file", "dir"} :
       \E ku \in {"none", "file", "exec"} :
          LET f0 == [p \in A |-> arquivo0]
              f1 == IF kx = "none" THEN f0
                    ELSE Com(f0, XC, [kind |-> kx, mt |-> 0])
              f2 == IF ku = "none" THEN f1
                    ELSE Com(f1, join(UsrT, N("compilador")), [kind |-> ku, mt |-> 0])
          IN fs = f2
    /\ \E vc \in {None, Raw(<<WS>>), Raw(XC), Raw(<<WS>> \o XC \o <<WS>>),
                  Some([uni |-> FALSE, s |-> XC])} :
       \E vi \in {Raw(XI)} :
       \E vh \in {None, Raw(HomeT)} :
          env = [n \in EnvNames |->
                    IF n = "PORDOSOL_COMPILADOR_PATH" THEN vc
                    ELSE IF n = "PORDOSOL_INTERPRETADOR_PATH" THEN vi
                    ELSE IF n = "PORDOSOL_HOME" THEN vh ELSE None]
    /\ path_dirs = <<UsrT>>
    /\ exe \in {None, Some(ExeT)}
    /\ cwd = RaizT
    /\ ordem = <<>>
    /\ InitResto

\* localizar_executavel called for one tool from one project root.
Localizar ==
    /\ \E nome \in Ferramentas :
          diag' = Some([nome |-> nome, raiz |-> RaizT,
                        d |-> localizar_executavel(fs, cwd, env, exe, path_dirs,
                                                   nome, VarDe(nome), RaizT)])
    /\ UNCHANGED <<fs, ordem, env, path_dirs, exe, cwd, clock, proj, raizOut, lista, hist, conteudo, procs>>

NextTool == Localizar

SpecTool == InitTool /\ [][NextTool]_vars

----------------------------------------------------------------------------
(* Commands.  Every command appends what it did to hist. *)

Comando(op, caminho, force, arquivo, no_build, target, saida, r) ==
    [op |-> op, caminho |-> caminho, force |-> force, arquivo |-> arquivo,
     no_build |-> no_build, target |-> target, saida |-> saida,
     fs0 |-> fs, proj0 |-> proj,
     res |-> r.res, lancados |-> r.lancados, raiz |-> r.raiz, fontes |-> r.fontes,
     tc |-> r.tc, pbc |-> r.pbc, precisa |-> r.precisa]

\* pordosol run, with the outcomes the two child processes may have.
Run(Argumentos, Flags, Ocs, Ois, max) ==
    /\ Len(hist) < max
    /\ \E a \in Argumentos, force \in Flags, no_build \in Flags, oc \in Ocs, oi \in Ois :
          \E caminho \in {a[1]}, arquivo \in {a[2]} :
          \E r \in {run_unificado(fs, cwd, env, exe, path_dirs, ordem, clock,
                                  caminho, force, arquivo, no_build, oc, oi)} :
              /\ fs' = r.fs
              /\ hist' = Append(hist, Comando("run", caminho, force, arquivo, no_build,
                                              <<>>, None, r))
    /\ UNCHANGED <<ordem, env, path_dirs, exe, cwd, clock, proj, diag, raizOut, lista, conteudo, procs>>

\* pordosol build, with the outcome the compiler may have.
Build(Caminhos, Targets, Ocs, max) ==
    /\ Len(hist) < max
    /\ \E caminho \in Caminhos, target \in Targets, oc \in Ocs :
          \E r \in {compilar_cmd(fs, cwd, env, exe, path_dirs, ordem, clock, proj,
                                 caminho, target, None, oc)} :
              /\ fs' = r.fs
              /\ hist' = Append(hist, Comando("build", caminho, FALSE, None, FALSE,
                                              target, None, r))
    /\ UNCHANGED <<ordem, env, path_dirs, exe, cwd, clock, proj, diag, raizOut, lista, conteudo, procs>>

----------------------------------------------------------------------------
(* The world of the single-command specification *)

MaxTime == 1

SrcT == join(RaizT, nome_src)
PR1 == join(SrcT, programa_pr)
PR2 == join(SrcT, NE("a", "pr"))
BuildT == join(RaizT, N("build"))
ArtefatoX == <<N("w"), N("p"), N("out"), NE("x", "pbc")>>
ArtefatoY == <<N("w"), N("p"), N("out"), NE("y", "bin")>>

Tempos == 0..MaxTime

\* fs with path p in the state st: "absent", a modification time, or NoTime.
ComArquivo(g, p, st) ==
    IF st = NoTime - 1 THEN g ELSE Com(g, p, [kind |-> "file", mt |-> st])

Ausente == NoTime - 1

\* The toolchain situations: what the override variables hold and what the
\* filesystem has at the places resolution looks at, for the compiler and
\* for the interpreter.
Situacoes ==
    {<<"env_exec", "env_exec">>, <<"env_dir", "env_exec">>, <<"env_ausente", "env_exec">>,
     <<"path_exec", "env_exec">>, <<"env_exec", "env_ausente">>}

FsFerramentas(g, sc, si) ==
    LET g1 == IF sc = "env_exec" THEN Com(g, XC, exec0)
              ELSE IF sc = "env_dir" THEN Com(g, XC, dir0)
              ELSE IF sc = "path_exec" THEN Com(g, join(UsrT, N("compilador")), exec0)
              ELSE g
    IN  IF si = "env_exec" THEN Com(g1, XI, exec0) ELSE g1

EnvFerramentas(sc, si) ==
    [n \in EnvNames |->
        IF n = "PORDOSOL_COMPILADOR_PATH"
        THEN IF sc \in {"env_exec", "env_dir", "env_ausente"} THEN Raw(XC) ELSE None
        ELSE IF n = "PORDOSOL_INTERPRETADOR_PATH" THEN Raw(XI)
        ELSE None]

InitRun ==
    /\ \E sit \in Situacoes :
       \E s1 \in Tempos \cup {NoTime, Ausente}, s2 \in Tempos \cup {Ausente} :
       \E alvo \in {join(BuildT, NE("programa", "pbc")), join(BuildT, NE("a", "pbc")),
                    ArtefatoX, ArtefatoY} :
       \E sa \in Tempos \cup {NoTime, Ausente} :
          /\ fs = FsFerramentas(
                    ComArquivo(ComArquivo(ComArquivo([p \in {SrcT} |-> dir0], PR1, s1),
                                          PR2, s2), alvo, sa), sit[1], sit[2])
          /\ env = EnvFerramentas(sit[1], sit[2])
    /\ path_dirs = <<UsrT>>
    /\ exe = None
    /\ cwd = RaizT
    /\ ordem = <<NE("a", "pr"), programa_pr>>
    /\ proj = None
    /\ clock = MaxTime
    /\ diag = None
    /\ raizOut = None
    /\ lista = None
    /\ hist = <<>>
    /\ conteudo = <<>>
    /\ procs = <<>>

\* The command lines: <<caminho, arquivo>>.
ArgumentosRun ==
    {<<<<DOT>>, None>>, <<PR2, None>>, <<<<DOT>>, Some(PR2)>>,
     <<<<DOT>>, Some(ArtefatoX)>>, <<<<DOT>>, Some(ArtefatoY)>>}

RunUm ==
    Run(ArgumentosRun, BOOLEAN, {"ok", "fail"}, {"ok", "fail"}, 1)

BuildUm ==
    Build({<<DOT>>},
          {T_bytecode, <<" ", "B", "C">>, T_llvm, <<"L", "L", "V", "M", "-", "i", "r", " ">>,
           T_cil, T_console, <<" ", "U", "n", "i", "v", "e", "r", "s", "a", "l">>, <<"x">>},
          {"ok", "fail"}, 1)

NextRun == RunUm \/ BuildUm

SpecRun == InitRun /\ [][NextRun]_vars

----------------------------------------------------------------------------
(* Properties of the resolution *)

\* The path an override variable holds: its Unicode value without the
\* surrounding whitespace, when something is left.
ValorDe(var) ==
    IF IsSome(env[var]) /\ Get(env[var]).uni /\ trim(Get(env[var]).s) # <<>>
    THEN Some(trim(Get(env[var]).s)) ELSE None

\* The candidates of the five tiers in search order, each with the origin
\* reported on success and whether the tier accepts it.
Candidatos(nome) ==
    LET n == N(nome)
        t1 == IF IsSome(ValorDe(VarDe(nome)))
              THEN <<[p |-> Get(ValorDe(VarDe(nome))), o |-> "env:" \o VarDe(nome),
                      v |-> is_file(fs, cwd, Get(ValorDe(VarDe(nome))))]>>
              ELSE <<>>
        t2 == [i \in 1..Len(caminhos_tools_instalacao(exe, n)) |->
                 [p |-> caminhos_tools_instalacao(exe, n)[i], o |-> "instalacao-cli/tools",
                  v |-> is_file(fs, cwd, caminhos_tools_instalacao(exe, n)[i])]]
        t3 == IF IsSome(ValorDe("PORDOSOL_HOME"))
              THEN LET h == join(join(Get(ValorDe("PORDOSOL_HOME")), N("tools")), n) IN
                   <<[p |-> h, o |-> "env:PORDOSOL_HOME/tools", v |-> is_file(fs, cwd, h)]>>
              ELSE <<>>
        t4 == [i \in 1..Len(path_dirs) |->
                 [p |-> join(path_dirs[i], n), o |-> "PATH",
                  v |-> kind(fs, cwd, join(path_dirs[i], n)) = "exec"]]
        t5 == [i \in 1..Len(candidatos_lib_local(RaizT, n)) |->
                 [p |-> candidatos_lib_local(RaizT, n)[i], o |-> "fallback:./lib",
                  v |-> is_file(fs, cwd, candidatos_lib_local(RaizT, n)[i])]]
    IN t1 \o t2 \o t3 \o t4 \o t5

\* C1: an override variable that holds the path of a regular file decides the
\* resolution: that path is returned, found, with the env-override origin,
\* whatever the other tiers hold.
C1_OverrideVence ==
    IsSome(diag) =>
        LET r == Get(diag)
            v == ValorDe(VarDe(r.nome))
        IN  (IsSome(v) /\ is_file(fs, cwd, Get(v))) =>
                r.d = ok(r.nome, Get(v), "env:" \o VarDe(r.nome))

\* The override wins although the installation, PORDOSOL_HOME, PATH and lib
\* tiers all hold a valid candidate, and the value needed trimming.
C1_Witness ==
    /\ IsSome(diag)
    /\ Get(diag).nome = "compilador"
    /\ Get(diag).d.encontrado
    /\ Get(diag).d.caminho = XC
    /\ Get(env["PORDOSOL_COMPILADOR_PATH"]).s # XC
    /\ \A i \in 2..Len(Candidatos("compilador")) : Candidatos("compilador")[i].v

\* C2 as stated: a resolution that finds nothing reports the origin of the
\* environment-variable tier, whether the override variable is set or not.
C2_Original ==
    (IsSome(diag) /\ ~Get(diag).d.encontrado) =>
        Get(diag).d.origem \in {"env:" \o VarDe(Get(diag).nome),
                                "env:" \o VarDe(Get(diag).nome) \o " (invalido)"}

\* The failure origin of the first tier that had a candidate to try.
PrimeiraOrigem(nome) ==
    IF IsSome(ValorDe(VarDe(nome))) THEN "env:" \o VarDe(nome) \o " (invalido)"
    ELSE IF IsSome(exe) THEN "instalacao-cli/tools (ausente)"
    ELSE IF IsSome(ValorDe("PORDOSOL_HOME")) THEN "env:PORDOSOL_HOME/tools (ausente)"
    ELSE "PATH"

\* C2 (amended): a resolution that finds nothing reports the first tier that
\* had a candidate: the environment-variable tier when the override variable
\* holds a path, otherwise the installation tier, then PORDOSOL_HOME, then
\* PATH; never a tier after that one, and never the lib fallback.
C2_PrimeiraFalha ==
    (IsSome(diag) /\ ~Get(diag).d.encontrado) =>
        /\ Get(diag).d.origem = PrimeiraOrigem(Get(diag).nome)
        /\ Get(diag).d.origem # "fallback:./lib (ausente)"

\* Nothing is found, the override variable is set and invalid, and later
\* tiers were tried and failed as well.
C2_Witness ==
    /\ IsSome(diag)
    /\ Get(diag).nome = "compilador"
    /\ ~Get(diag).d.encontrado
    /\ Get(diag).d.origem = "env:PORDOSOL_COMPILADOR_PATH (invalido)"
    /\ Get(diag).d.caminho = XC
    /\ IsSome(exe)
    /\ IsSome(ValorDe("PORDOSOL_HOME"))

\* C3: the result is the first valid candidate in tier order, with that
\* tier's origin; nothing is found exactly when no candidate is valid.
C3_OrdemDasCamadas ==
    IsSome(diag) =>
        LET r == Get(diag)
            cs == Candidatos(r.nome)
            V == {i \in 1..Len(cs) : cs[i].v}
        IN  /\ r.d.encontrado <=> V # {}
            /\ V # {} => r.d = ok(r.nome, cs[Min(V)].p, cs[Min(V)].o)

\* The second installation candidate is returned: the first one and the
\* override are invalid, and the PATH and lib tiers hold valid candidates too.
C3_Witness ==
    /\ IsSome(diag)
    /\ Get(diag).nome = "compilador"
    /\ Get(diag).d = ok("compilador", <<N("opt"), N("tools"), N("compilador")>>,
                        "instalacao-cli/tools")
    /\ IsSome(ValorDe("PORDOSOL_COMPILADOR_PATH"))
    /\ kind(fs, cwd, join(UsrT, N("compilador"))) = "exec"
    /\ is_file(fs, cwd, <<N("lib"), N("compilador")>>)

----------------------------------------------------------------------------
(* The world of the project-root specification: a chain of directories,     *)
(* each holding a source file, where src may be a directory, a file or      *)
(* absent at every level.                                                    *)

MaxProf == 5

RECURSIVE Cadeia(_)
Cadeia(k) == IF k = 0 THEN <<>> ELSE Append(Cadeia(k - 1), N("d"))

InitRaiz ==
    /\ \E k \in [0..MaxProf -> {"none", "dir", "file"}] :
          fs = [p \in {join(Cadeia(i), NE("a", "pr")) : i \in 0..MaxProf}
                      \cup {join(Cadeia(i), nome_src) : i \in {j \in 0..MaxProf : k[j] # "none"}}
                  |-> IF p[Len(p)] = nome_src
                      THEN [kind |-> k[Len(p) - 1], mt |-> 0]
                      ELSE arquivo0]
    /\ env = [n \in EnvNames |-> None]
    /\ path_dirs = <<>>
    /\ exe = None
    /\ cwd = Cadeia(MaxProf)
    /\ ordem = <<>>
    /\ InitResto

\* localizar_raiz called on a directory of the chain, on a file in one, or
\* on the working directory given as ".".
LocalizarRaiz ==
    /\ \E i \in 0..MaxProf :
       \E caminho \in {Cadeia(i), join(Cadeia(i), NE("a", "pr")), <<DOT>>} :
          raizOut' = Some([caminho |-> caminho, raiz |-> localizar_raiz(fs, cwd, caminho)])
    /\ UNCHANGED <<fs, ordem, env, path_dirs, exe, cwd, clock, proj, diag, lista, hist, conteudo, procs>>

NextRaiz == LocalizarRaiz

SpecRaiz == InitRaiz /\ [][NextRaiz]_vars

\* The directory a path stands for: itself, or its parent when it is a file.
DirDe(caminho) ==
    LET a == absolutize(cwd, caminho) IN
    IF is_file(fs, cwd, a) THEN SubSeq(a, 1, Len(a) - 1) ELSE a

TemSrc(d) == kind(fs, cwd, join(d, nome_src)) = "dir"

\* The directory itself and its ancestors up to n levels above.
Ate(d, n) == {SubSeq(d, 1, j) : j \in {i \in 0..Len(d) : Len(d) - i <= n}}

\* C8 as stated: when exactly one directory among the path's own directory
\* and its ancestors up to 5 levels above holds a src directory, that
\* directory is the root returned.
C8_Original ==
    IsSome(raizOut) =>
        LET d == DirDe(Get(raizOut).caminho)
            S == {a \in Ate(d, 5) : TemSrc(a)}
        IN  Cardinality(S) = 1 => Get(raizOut).raiz \in S

\* What the code does: the search covers the path's own directory and 4
\* levels above it, nearest first.
C8_QuatroNiveis ==
    IsSome(raizOut) =>
        LET d == DirDe(Get(raizOut).caminho)
            S == {a \in Ate(d, 4) : TemSrc(a)}
        IN  IF S = {} THEN Get(raizOut).raiz = absolutize(cwd, Get(raizOut).caminho)
            ELSE /\ Get(raizOut).raiz \in S
                 /\ \A a \in S : Len(a) <= Len(Get(raizOut).raiz)

----------------------------------------------------------------------------
(* The world of the listing specification *)

RaizL == <<N("w"), N("p")>>
SrcL == join(RaizL, nome_src)

NomesL == {programa_pr, NE("a", "pr"), NE("notas", "txt"), N("sub"), NE("c", "pr")}

\* Files that may exist under src; src/d.pr is a directory.
ArquivosL ==
    {join(SrcL, programa_pr), join(SrcL, NE("a", "pr")), join(SrcL, NE("notas", "txt")),
     join(join(SrcL, N("sub")), programa_pr), join(join(SrcL, N("sub")), NE("c", "pr")),
     join(join(SrcL, NE("d", "pr")), NE("c", "pr"))}

Permutacoes(S) ==
    {s \in [1..Cardinality(S) -> S] : \A i, j \in 1..Cardinality(S) : i # j => s[i] # s[j]}

InitListar ==
    /\ \E A \in SUBSET ArquivosL : fs = [p \in A |-> arquivo0]
    /\ \E o \in Permutacoes(NomesL) :
       \E k \in {1, Cardinality(NomesL) + 1} :
          ordem = SubSeq(o, 1, k - 1) \o <<NE("d", "pr")>> \o SubSeq(o, k, Len(o))
    /\ env = [n \in EnvNames |-> None]
    /\ path_dirs = <<>>
    /\ exe = None
    /\ cwd = RaizL
    /\ InitResto

Listar ==
    /\ lista' = Some([raiz |-> RaizL, walk |-> walkdir(fs, ordem, SrcL),
                      arquivos |-> listar_prs(fs, ordem, RaizL)])
    /\ UNCHANGED <<fs, ordem, env, path_dirs, exe, cwd, clock, proj, diag, raizOut, hist, conteudo, procs>>

NextListar == Listar

SpecListar == InitListar /\ [][NextListar]_vars

\* The .pr regular files below src, read off the filesystem.
FontesEmDisco ==
    {p \in DOMAIN fs : /\ IsProperPrefix(SrcL, p)
                       /\ fs[p].kind \in {"file", "exec"}
                       /\ extension(p) = Some("pr")}

SemRepeticao(l) == \A i, j \in 1..Len(l) : i # j => l[i] # l[j]

\* The files of l other than those in Fora are in the order the walk found them.
NaOrdemDoWalk(l, w, Fora) ==
    \A i, j \in 1..Len(l) :
        (i < j /\ l[i] \notin Fora /\ l[j] \notin Fora) => posicao(w, l[i]) < posicao(w, l[j])

\* C9 as stated: a file named programa.pr anywhere below src is first; the
\* others keep the walk's order; the list is exactly the .pr files, once each.
C9_Original ==
    IsSome(lista) =>
        LET l == Get(lista).arquivos
            P == {i \in 1..Len(l) : file_name(l[i]) = Some(programa_pr)}
        IN  /\ P # {} => 1 \in P
            /\ NaOrdemDoWalk(l, Get(lista).walk, {l[i] : i \in {1} \cap P})
            /\ {l[i] : i \in 1..Len(l)} = FontesEmDisco
            /\ SemRepeticao(l)

\* C9 (amended): only <root>/src/programa.pr is moved to the front; every
\* other file, a programa.pr of a subdirectory included, keeps the walk's
\* order; the list is exactly the .pr regular files below src, once each.
C9_PreferidoNoTopo ==
    IsSome(lista) =>
        LET l == Get(lista).arquivos
            pref == join(SrcL, programa_pr)
        IN  /\ pref \in FontesEmDisco => l[1] = pref
            /\ NaOrdemDoWalk(l, Get(lista).walk, {pref})
            /\ {l[i] : i \in 1..Len(l)} = FontesEmDisco
            /\ SemRepeticao(l)

\* src/programa.pr was found last by the walk and is listed first, before a
\* programa.pr of a subdirectory.
C9_Witness ==
    /\ IsSome(lista)
    /\ Len(Get(lista).arquivos) >= 4
    /\ Get(lista).arquivos[1] = join(SrcL, programa_pr)
    /\ join(join(SrcL, N("sub")), programa_pr) \in FontesEmDisco
    /\ posicao(Get(lista).walk, join(SrcL, programa_pr))
         > posicao(Get(lista).walk, join(join(SrcL, N("sub")), programa_pr))


----------------------------------------------------------------------------
(* Properties of run and build.  They speak about the commands in hist:    *)
(* what each was given, the filesystem it started from (fs0), how it ended *)
(* (res) and which subprocesses it started (lancados).                      *)

Compilou(h) == \E i \in 1..Len(h.lancados) : h.lancados[i].prog = "compilador"
Interpretou(h) == \E i \in 1..Len(h.lancados) : h.lancados[i].prog = "interpretador"

\* The run passed the source and toolchain checks and took the rebuild decision.
Decidiu(h) == h.op = "run" /\ IsSome(h.precisa)

\* The artifact was given on the command line as a .pbc file.
ArtefatoExplicito(h) == IsSome(h.arquivo) /\ extension(Get(h.arquivo)) = Some("pbc")

TempoDe(h, p) == modified(h.fs0, cwd, p)
ArtefatoExiste(h) == exists(h.fs0, cwd, Get(h.pbc))

MaisNovo(h, p) ==
    /\ IsSome(TempoDe(h, p))
    /\ IsSome(TempoDe(h, Get(h.pbc)))
    /\ Get(TempoDe(h, p)) > Get(TempoDe(h, Get(h.pbc)))

UmaFonteSemFlags(h) ==
    /\ Decidiu(h) /\ ~h.force /\ ~h.no_build
    /\ Len(h.fontes) = 1
    /\ ArtefatoExiste(h)

ArtefatoMaisNovo(h, p) ==
    /\ IsSome(TempoDe(h, p))
    /\ IsSome(TempoDe(h, Get(h.pbc)))
    /\ Get(TempoDe(h, Get(h.pbc))) > Get(TempoDe(h, p))

\* C5 as stated: one source, an existing artifact, neither flag: the compiler
\* is invoked when the artifact is older than the source, not invoked when
\* the artifact is newer, invoked when the source's time cannot be read.
C5_Original ==
    \A i \in 1..Len(hist) :
        LET h == hist[i] IN
        UmaFonteSemFlags(h) =>
            /\ MaisNovo(h, h.fontes[1]) => Compilou(h)
            /\ ArtefatoMaisNovo(h, h.fontes[1]) => ~Compilou(h)
            /\ ~IsSome(TempoDe(h, h.fontes[1])) => Compilou(h)

\* C5 (amended): the three cases hold when the artifact is the one derived
\* from the source or an explicit file that is no .pbc; when the artifact was
\* given explicitly as a .pbc file the decision is false in all three cases.
C5_UmaFonte ==
    \A i \in 1..Len(hist) :
        LET h == hist[i] IN
        UmaFonteSemFlags(h) =>
            IF ArtefatoExplicito(h) THEN ~Compilou(h)
            ELSE /\ MaisNovo(h, h.fontes[1]) => Compilou(h)
                 /\ ArtefatoMaisNovo(h, h.fontes[1]) => ~Compilou(h)
                 /\ ~IsSome(TempoDe(h, h.fontes[1])) => Compilou(h)

\* One source whose modification time cannot be read, an existing artifact
\* with a readable time, no flags: the compiler is invoked.
C5_Witness ==
    /\ Len(hist) = 1
    /\ UmaFonteSemFlags(hist[1])
    /\ ~ArtefatoExplicito(hist[1])
    /\ is_file(hist[1].fs0, cwd, hist[1].fontes[1])
    /\ ~IsSome(TempoDe(hist[1], hist[1].fontes[1]))
    /\ IsSome(TempoDe(hist[1], Get(hist[1].pbc)))
    /\ Compilou(hist[1])

C10_Original ==
    \A i \in 1..Len(hist) :
        LET h == hist[i] IN
        IsSome(h.tc) =>
            /\ ~Get(h.tc).compilador.encontrado =>
                  (h.res = "compilador_nao_encontrado" /\ h.lancados = <<>>)
            /\ (h.op = "run" /\ Get(h.tc).compilador.encontrado
                             /\ ~Get(h.tc).interpretador.encontrado) =>
                  (h.res = "interpretador_nao_encontrado" /\ h.lancados = <<>>)

----------------------------------------------------------------------------
(* The world of the command-sequence specification: a project with working *)
(* tools, on which run and build follow each other while time passes and   *)
(* the entry point is edited.                                               *)

MaxTiques == 1
MaxCmds == 2

Manifesto == [target_padrao |-> Some(T_llvm_ir)]

InitSeq ==
    /\ \E s1 \in Tempos \cup {NoTime}, s2 \in {Ausente, MaxTime} :
          fs = FsFerramentas(
                  ComArquivo(ComArquivo([p \in {SrcT} |-> dir0], PR1, s1), PR2, s2),
                  "env_exec", "env_exec")
    /\ env = EnvFerramentas("env_exec", "env_exec")
    /\ path_dirs = <<UsrT>>
    /\ exe = None
    /\ cwd = RaizT
    /\ ordem = <<NE("a", "pr"), programa_pr>>
    /\ proj \in {None, Some(Manifesto)}
    /\ clock = MaxTime
    /\ diag = None
    /\ raizOut = None
    /\ lista = None
    /\ hist = <<>>
    /\ conteudo = <<>>
    /\ procs = <<>>

RunSeq == Run({<<<<DOT>>, None>>}, BOOLEAN, {"ok", "fail"}, {"ok"}, MaxCmds)

BuildSeq == Build({<<DOT>>}, {T_bytecode}, {"ok", "fail"}, MaxCmds)

\* The entry point is saved again: its modification time becomes the
\* current time.
Tocar ==
    /\ fs[PR1].mt # clock
    /\ fs' = [fs EXCEPT ![PR1].mt = clock]
    /\ UNCHANGED <<ordem, env, path_dirs, exe, cwd, clock, proj, diag, raizOut, lista, hist, conteudo, procs>>

Tique ==
    /\ clock < MaxTime + MaxTiques
    /\ clock' = clock + 1
    /\ UNCHANGED <<fs, ordem, env, path_dirs, exe, cwd, proj, diag, raizOut, lista, hist, conteudo, procs>>

NextSeq == RunSeq \/ BuildSeq \/ Tocar \/ Tique

SpecSeq == InitSeq /\ [][NextSeq]_vars

\* Between the starts of the two commands no source of the first changed.
FontesInalteradas(h1, h2) ==
    /\ h1.fontes = h2.fontes
    /\ \A k \in 1..Len(h1.fontes) : h1.fs0[h1.fontes[k]] = h2.fs0[h1.fontes[k]]

CompilouComSucesso(h) ==
    \E k \in 1..Len(h.lancados) :
        h.lancados[k].prog = "compilador" /\ h.lancados[k].status = "ok"

----------------------------------------------------------------------------
(* pordosol dep: the dependency table of the manifest.  The manifest is the
   JSON document of <root>/pordosol.proj: fs holds the file, conteudo its
   document.  A document is [valido, dependencias]: valido is whether the
   text parses as JSON, dependencias is None when the field is missing or is
   no object and Some(table) otherwise; campos is every other member of the
   document; a table maps names to values
   [t, v] with t one of "str" (a JSON string), "path" (an object with a path
   member), "obj" (another object) and "outro" (any other JSON value). *)

nome_proj == NE("pordosol", "proj")

Tabela(doc) == Get(doc.dependencias)

\* The table d with the entry k removed.
sem(d, k) == [n \in (DOMAIN d) \ {k} |-> d[n]]

insert_se_ausente(d, k, valor) == d @@ (k :> valor)

\* serde_json's Map::insert: adds the entry or replaces the one of that name.
insert(d, k, valor) == (k :> valor) @@ d

\* The line dep list prints for one entry.
linha_dep(k, valor) ==
    IF valor.t = "str" THEN <<"  - ", k, " = ", valor.v>>
    ELSE IF valor.t = "path" THEN <<"  - ", k, " (path = \"", valor.v, "\")">>
    ELSE IF valor.t = "obj" THEN <<"  - ", k, " (obj) = ", valor.v>>
    ELSE <<"  - ", k, " = ", valor.v>>

\* What dep list prints for a table.
listar_deps(d) ==
    IF DOMAIN d = {} THEN {<<"Nenhuma dependencia declarada.">>}
    ELSE {<<"Dependencias:">>} \cup {linha_dep(k, d[k]) : k \in DOMAIN d}

\* The value dep add stores: the local path when given, else the version,
\* else "*".
valor_dep(versao, caminho_local) ==
    IF IsSome(caminho_local) THEN [t |-> "path", v |-> Get(caminho_local)]
    ELSE [t |-> "str", v |-> (IF IsSome(versao) THEN Get(versao) ELSE "*")]

A_add == <<"a", "d", "d">>
A_remove == <<"r", "e", "m", "o", "v", "e">>
A_rm == <<"r", "m">>
A_list == <<"l", "i", "s", "t">>
A_ls == <<"l", "s">>
A_listar == <<"l", "i", "s", "t", "a", "r">>

\* The outcome of the part of dep_cmd that runs before any write:
\* res is the result, saida what was printed, gravar the document to write
\* (None when nothing is written).
FimDep(res, saida, gravar) == [res |-> res, saida |-> saida, gravar |-> gravar]

\* dep_cmd writing the document back on every remove.
dep_acao_remove_grava(doc, d, acao, nome, versao, caminho_local) ==
    IF acao = A_add THEN
        IF ~IsSome(nome) THEN FimDep("informe_o_nome", {}, None)
        ELSE FimDep("ok",
                    (IF Get(nome) \in DOMAIN d THEN {<<"ja existe. Atualizando...">>} ELSE {})
                        \cup {<<"adicionada/atualizada">>},
                    Some([doc EXCEPT !.dependencias =
                              Some(insert(d, Get(nome), valor_dep(versao, caminho_local)))]))
    ELSE IF acao \in {A_remove, A_rm} THEN
        IF ~IsSome(nome) THEN FimDep("informe_o_nome", {}, None)
        ELSE IF Get(nome) \in DOMAIN d
             THEN FimDep("ok", {<<"removida">>},
                         Some([doc EXCEPT !.dependencias = Some(sem(d, Get(nome)))]))
             ELSE FimDep("ok", {<<"nao encontrada">>}, Some(doc))
    ELSE IF acao \in {A_list, A_ls, A_listar} THEN FimDep("ok", listar_deps(d), None)
    ELSE FimDep("acao_desconhecida", {}, None)

\* dep_cmd after the dependency table d of the document doc has been read.
dep_acao(doc, d, acao, nome, versao, caminho_local) ==
    IF acao = A_add THEN
        IF ~IsSome(nome) THEN FimDep("informe_o_nome", {}, None)
        ELSE FimDep("ok",
                    (IF Get(nome) \in DOMAIN d THEN {<<"ja existe. Atualizando...">>} ELSE {})
                        \cup {<<"adicionada/atualizada">>},
                    Some([doc EXCEPT !.dependencias =
                              Some(insert(d, Get(nome), valor_dep(versao, caminho_local)))]))
    ELSE IF acao \in {A_remove, A_rm} THEN
        IF ~IsSome(nome) THEN FimDep("informe_o_nome", {}, None)
        ELSE IF Get(nome) \in DOMAIN d
             THEN FimDep("ok", {<<"removida">>},
                         Some([doc EXCEPT !.dependencias = Some(sem(d, Get(nome)))]))
             ELSE FimDep("ok", {<<"nao encontrada">>}, None)
    ELSE IF acao \in {A_list, A_ls, A_listar} THEN FimDep("ok", listar_deps(d), None)
    ELSE FimDep("acao_desconhecida", {}, None)

\* dep_cmd up to its write: the root, the manifest read whole and parsed,
\* the table changed in memory.  ct is the content of the files.
dep_cmd(f, c, ct, acao, nome, versao, caminho_local, caminho_projeto) ==
    Seja(join(localizar_raiz(f, c, caminho_projeto), nome_proj), LAMBDA proj_path :
        IF ~exists(f, c, proj_path) THEN FimDep("projeto_nao_encontrado", {}, None)
        ELSE IF ~is_file(f, c, proj_path) THEN FimDep("erro_de_leitura", {}, None)
        ELSE IF ~ct[proj_path].valido THEN FimDep("json_invalido", {}, None)
        ELSE IF ~IsSome(ct[proj_path].dependencias)
             THEN FimDep("dependencias_ausente", {}, None)
        ELSE dep_acao(ct[proj_path], Tabela(ct[proj_path]), to_ascii_lowercase(acao),
                      nome, versao, caminho_local))

\* fs::write: the file p holds the text txt, written whole at time t.
write(f, p, t) == (p :> [kind |-> "file", mt |-> t]) @@ f

\* One dep invocation as typed.
CmdDep(acao, nome, versao, caminho_local, caminho_projeto) ==
    [acao |-> acao, nome |-> nome, versao |-> versao,
     caminho_local |-> caminho_local, caminho_projeto |-> caminho_projeto]

\* A finished dep invocation: what it was given, the document it read
\* (None when it read none), how many writes of the manifest had been made
\* when it read, its outcome, the document it wrote (None when it wrote
\* none) and the document on disk when it returned.
ComandoDep(p, cmd, lido, escritas, r, depois) ==
    [op |-> "dep", p |-> p, cmd |-> cmd, lido |-> lido, escritas |-> escritas,
     res |-> r.res, saida |-> r.saida, gravado |-> r.gravar, depois |-> depois]

\* The writes of the manifest made so far.
Escritas == Cardinality({k \in 1..Len(hist) : IsSome(hist[k].gravado)})

ProjT == join(RaizT, nome_proj)

Parado == [pc |-> "parado"]

\* What the invocation of cmd reads: the document of the manifest it finds.
LidoPor(cmd) ==
    Seja(join(localizar_raiz(fs, cwd, cmd.caminho_projeto), nome_proj), LAMBDA proj_path :
        IF is_file(fs, cwd, proj_path) THEN Some(conteudo[proj_path]) ELSE None)

\* A dep invocation starts: it reads the manifest, changes the table in memory
\* and, when there is nothing to write, returns.
DepLer(Procs, Cmds, max) ==
    /\ Len(hist) + Cardinality({q \in Procs : procs[q].pc = "gravar"}) < max
    /\ \E p \in Procs, cmd \in Cmds :
          /\ procs[p].pc = "parado"
          /\ \E r \in {dep_cmd(fs, cwd, conteudo, cmd.acao, cmd.nome, cmd.versao,
                                cmd.caminho_local, cmd.caminho_projeto)} :
             \E lido \in {LidoPor(cmd)} :
                IF IsSome(r.gravar)
                THEN /\ procs' = [procs EXCEPT ![p] = [pc |-> "gravar", cmd |-> cmd,
                                                       lido |-> lido, r |-> r,
                                                       escritas |-> Escritas]]
                     /\ UNCHANGED hist
                ELSE /\ hist' = Append(hist, ComandoDep(p, cmd, lido, Escritas, r, lido))
                     /\ UNCHANGED procs
    /\ UNCHANGED <<fs, ordem, env, path_dirs, exe, cwd, clock, proj, diag, raizOut, lista, conteudo>>

\* A write that keeps the entries the manifest on disk has and the
\* invocation's own document lacks.
DepGravar_mesclando(Procs) ==
    /\ \E p \in Procs :
          /\ procs[p].pc = "gravar"
          /\ \E proj_path \in {join(localizar_raiz(fs, cwd, procs[p].cmd.caminho_projeto),
                                     nome_proj)} :
             \E doc \in {[Get(procs[p].r.gravar) EXCEPT !.dependencias =
                              Some(Tabela(Get(procs[p].r.gravar))
                                       @@ Tabela(conteudo[proj_path]))]} :
                /\ fs' = write(fs, proj_path, clock)
                /\ conteudo' = (proj_path :> doc) @@ conteudo
                /\ hist' = Append(hist, ComandoDep(p, procs[p].cmd, procs[p].lido,
                                                   procs[p].escritas, procs[p].r, Some(doc)))
          /\ procs' = [procs EXCEPT ![p] = Parado]
    /\ UNCHANGED <<ordem, env, path_dirs, exe, cwd, clock, proj, diag, raizOut, lista>>

\* The invocation writes the whole document back and returns.
DepGravar(Procs) ==
    /\ \E p \in Procs :
          /\ procs[p].pc = "gravar"
          /\ \E proj_path \in {join(localizar_raiz(fs, cwd, procs[p].cmd.caminho_projeto),
                                     nome_proj)} :
                /\ fs' = write(fs, proj_path, clock)
                /\ conteudo' = (proj_path :> Get(procs[p].r.gravar)) @@ conteudo
          /\ hist' = Append(hist, ComandoDep(p, procs[p].cmd, procs[p].lido,
                                             procs[p].escritas, procs[p].r,
                                             procs[p].r.gravar))
          /\ procs' = [procs EXCEPT ![p] = Parado]
    /\ UNCHANGED <<ordem, env, path_dirs, exe, cwd, clock, proj, diag, raizOut, lista>>

MaxDeps == 3

V(s) == [t |-> "str", v |-> s]

\* The dependency tables a manifest may start with.
TabelasDep ==
    {<<>>,
     ("bar" :> V("0.1.0")),
     ("foo" :> V("0.9.0")) @@ ("bar" :> [t |-> "path", v |-> "../bar"]),
     ("bar" :> [t |-> "obj", v |-> "{}"]) @@ ("baz" :> [t |-> "outro", v |-> "7"])}

\* The members of a manifest other than dependencias.
CamposDoc == [nome |-> "p", versao |-> "0.1.0", target_padrao |-> "bytecode"]

Doc(d) == [valido |-> TRUE, dependencias |-> Some(d), campos |-> CamposDoc]

\* The documents a manifest may start with.
DocsDep ==
    {Doc(d) : d \in TabelasDep}
        \cup {[valido |-> FALSE, dependencias |-> None, campos |-> <<>>],
              [valido |-> TRUE, dependencias |-> None, campos |-> CamposDoc]}

\* The invocations tried.
CmdsDep ==
    {CmdDep(A_add, Some("foo"), Some("1.2.3"), None, <<DOT>>),
     CmdDep(A_add, Some("foo"), None, None, SrcT),
     CmdDep(A_add, Some("bar"), Some("2.0.0"), Some("../libs/bar"), <<DOT>>),
     CmdDep(A_add, None, None, None, <<DOT>>),
     CmdDep(A_remove, Some("foo"), None, None, <<DOT>>),
     CmdDep(<<"R", "M">>, Some("bar"), None, None, <<DOT>>),
     CmdDep(A_rm, None, None, None, <<DOT>>),
     CmdDep(A_list, None, None, None, <<DOT>>),
     CmdDep(A_ls, None, None, None, <<N("w")>>),
     CmdDep(<<"u", "p">>, None, None, None, <<DOT>>)}

InitDep(Procs) ==
    /\ \E m \in {None} \cup {Some(d) : d \in DocsDep} :
          /\ fs = IF IsSome(m) THEN Com(Com(<<>>, SrcT, dir0), ProjT, arquivo0)
                  ELSE Com(<<>>, SrcT, dir0)
          /\ conteudo = IF IsSome(m) THEN (ProjT :> Get(m)) ELSE <<>>
    /\ env = [n \in EnvNames |-> None]
    /\ path_dirs = <<>>
    /\ exe = None
    /\ cwd = RaizT
    /\ ordem = <<>>
    /\ clock = 0
    /\ proj = None
    /\ diag = None
    /\ raizOut = None
    /\ lista = None
    /\ hist = <<>>
    /\ procs = [p \in Procs |-> Parado]

\* One dep invocation at a time.
InitDepUm == InitDep({1})

NextDep ==
    \/ DepLer({1}, CmdsDep, MaxDeps)
    \/ DepGravar({1})

SpecDep == InitDepUm /\ [][NextDep]_vars

\* The action an invocation asked for, as dep_cmd compares it.
AcaoDe(h) == to_ascii_lowercase(h.cmd.acao)

EhAdd(h) == h.op = "dep" /\ AcaoDe(h) = A_add /\ IsSome(h.cmd.nome) /\ h.res = "ok"

EhRemove(h) ==
    h.op = "dep" /\ AcaoDe(h) \in {A_remove, A_rm} /\ IsSome(h.cmd.nome) /\ h.res = "ok"

EhList(h) == h.op = "dep" /\ AcaoDe(h) \in {A_list, A_ls, A_listar} /\ h.res = "ok"

\* The lines of a listing that are about the entry k.
LinhasDe(saida, k) == {l \in saida : Len(l) >= 2 /\ l[2] = k}

\* C11: run one after another on one project, (a) dep add n with a version v
\* and no local path followed by dep list shows the line "n = v", and the
\* manifest then lists that line; (b) dep remove n after that add leaves no
\* line about n in a following dep list, and every other entry is as it was
\* before the add; (c) dep remove of a name that is not in the table reports
\* "nao encontrada", writes nothing and returns success.
C11_AddRemoveList ==
    /\ \A i \in 1..Len(hist) :
          LET h == hist[i] IN
          (EhAdd(h) /\ IsSome(h.cmd.versao) /\ ~IsSome(h.cmd.caminho_local)) =>
              LET l == <<"  - ", Get(h.cmd.nome), " = ", Get(h.cmd.versao)>> IN
              /\ LinhasDe(listar_deps(Tabela(Get(h.depois))), Get(h.cmd.nome)) = {l}
              /\ (i < Len(hist) /\ EhList(hist[i + 1])) =>
                     LinhasDe(hist[i + 1].saida, Get(h.cmd.nome)) = {l}
    /\ \A i \in 1..(Len(hist) - 1) :
          LET a == hist[i]
              r == hist[i + 1]
          IN  (EhAdd(a) /\ EhRemove(r) /\ r.cmd.nome = a.cmd.nome) =>
                  LET antes == Tabela(Get(a.lido))
                      depois == Tabela(Get(r.depois))
                      n == Get(a.cmd.nome)
                  IN  /\ n \notin DOMAIN depois
                      /\ DOMAIN depois = (DOMAIN antes) \ {n}
                      /\ \A m \in DOMAIN depois : depois[m] = antes[m]
                      /\ (i + 1 < Len(hist) /\ EhList(hist[i + 2])) =>
                             /\ LinhasDe(hist[i + 2].saida, n) = {}
                             /\ \A m \in DOMAIN depois :
                                   linha_dep(m, antes[m]) \in hist[i + 2].saida
    /\ \A i \in 1..Len(hist) :
          LET h == hist[i] IN
          (/\ h.op = "dep" /\ AcaoDe(h) \in {A_remove, A_rm} /\ IsSome(h.cmd.nome)
           /\ IsSome(h.lido) /\ Get(h.lido).valido /\ IsSome(Get(h.lido).dependencias)
           /\ Get(h.cmd.nome) \notin DOMAIN Tabela(Get(h.lido))) =>
              /\ h.res = "ok"
              /\ h.saida = {<<"nao encontrada">>}
              /\ h.gravado = None
              /\ h.depois = h.lido

\* dep add foo --versao 1.2.3, dep remove foo and dep list in a row on a
\* manifest that already held foo and bar.
C11_Witness ==
    /\ Len(hist) = 3
    /\ EhAdd(hist[1]) /\ hist[1].cmd.nome = Some("foo") /\ hist[1].cmd.versao = Some("1.2.3")
    /\ "foo" \in DOMAIN Tabela(Get(hist[1].lido))
    /\ "bar" \in DOMAIN Tabela(Get(hist[1].lido))
    /\ EhRemove(hist[2]) /\ hist[2].cmd.nome = Some("foo")
    /\ EhList(hist[3])
    /\ hist[3].saida = {<<"Dependencias:">>,
                        linha_dep("bar", Tabela(Get(hist[1].lido))["bar"])}

----------------------------------------------------------------------------
(* pordosol new: project creation.  Text is a sequence of characters. *)

Digitos == <<"0", "1", "2", "3", "4", "5", "6", "7", "8", "9">>

Range(s) == {s[i] : i \in 1..Len(s)}

is_ascii_digit(ch) == ch \in Range(Digitos)

is_ascii_alphanumeric(ch) ==
    ch \in Range(Maiusculas) \cup Range(Minusculas) \cup Range(Digitos)

\* char::to_ascii_uppercase
to_ascii_uppercase(ch) ==
    IF \E k \in 1..Len(Minusculas) : Minusculas[k] = ch
    THEN Maiusculas[CHOOSE k \in 1..Len(Minusculas) : Minusculas[k] = ch]
    ELSE ch

\* str::split(pred): the pieces between the characters that satisfy pred,
\* empty pieces included; here pred is "not ASCII alphanumeric".
RECURSIVE split(_, _)
split(s, atual) ==
    IF s = <<>> THEN <<atual>>
    ELSE IF ~is_ascii_alphanumeric(Head(s)) THEN <<atual>> \o split(Tail(s), <<>>)
    ELSE split(Tail(s), Append(atual, Head(s)))

NS_Projeto == <<"P", "r", "o", "j", "e", "t", "o">>

formatar_token_sem_prefixo(token) ==
    LET chars == SelectSeq(token, is_ascii_alphanumeric) IN
    IF chars = <<>> THEN NS_Projeto
    ELSE <<to_ascii_uppercase(Head(chars))>> \o to_ascii_lowercase(Tail(chars))

formatar_token_namespace(token) ==
    LET chars == SelectSeq(token, is_ascii_alphanumeric) IN
    IF chars = <<>> THEN NS_Projeto
    ELSE (IF is_ascii_digit(Head(chars)) THEN <<"_", Head(chars)>>
          ELSE <<to_ascii_uppercase(Head(chars))>>)
         \o to_ascii_lowercase(Tail(chars))

\* [T]::join("."): the pieces with a dot between neighbours.
RECURSIVE join_ponto(_)
join_ponto(partes) ==
    IF partes = <<>> THEN <<>>
    ELSE IF Len(partes) = 1 THEN partes[1]
    ELSE partes[1] \o <<".">> \o join_ponto(Tail(partes))

\* gerar_namespace on the characters of the destination's base name
\* (None when the path has no base name).
gerar_namespace(nome) ==
    LET texto == IF IsSome(nome) THEN Get(nome) ELSE NS_Projeto
        naoVazia(parte) == parte # <<>>
        pedacos == SelectSeq(split(texto, <<>>), naoVazia)
        partes == [i \in 1..Len(pedacos) |-> formatar_token_namespace(pedacos[i])]
    IN  IF partes = <<>> THEN NS_Projeto ELSE join_ponto(partes)

\* The characters of the names that occur as text: project names and
\* template names.
Letras ==
    ("meu_app" :> <<"m", "e", "u", "_", "a", "p", "p">>)
        @@ ("2d" :> <<"2", "d">>)
        @@ ("console" :> T_console)
        @@ ("web" :> <<"w", "e", "b">>)
        @@ ("biblioteca" :> <<"b", "i", "b", "l", "i", "o", "t", "e", "c", "a">>)
        @@ ("classe" :> <<"c", "l", "a", "s", "s", "e">>)
        @@ ("api" :> <<"a", "p", "i">>)

\* to_string_lossy of a file name: its parts with dots between them.
texto_de_nome(n) == join_ponto([i \in 1..Len(n) |-> Letras[n[i]]])

\* The file name a text stands for in Path::join.
nome_de_texto(cs) ==
    IF \E s \in DOMAIN Letras : Letras[s] = cs
    THEN N(CHOOSE s \in DOMAIN Letras : Letras[s] = cs)
    ELSE N("?")

PH_PROJECT_NAME == <<"{{PROJECT_NAME}}">>
PH_NAMESPACE == <<"{{NAMESPACE}}">>
PH_TARGET == <<"{{TARGET}}">>

TemplateVars(project_name, namespace, target) ==
    [project_name |-> project_name, namespace |-> namespace, target |-> target]

\* substituir_placeholders on a text: a sequence of pieces, each a sequence
\* of characters or one of the three placeholders.
substituir_placeholders(valor, v) ==
    [i \in 1..Len(valor) |->
        IF valor[i] = PH_PROJECT_NAME THEN texto_de_nome(v.project_name)
        ELSE IF valor[i] = PH_NAMESPACE THEN v.namespace
        ELSE IF valor[i] = PH_TARGET THEN v.target
        ELSE valor[i]]

\* substituir_placeholders on a file name, then the ".tpl" suffix removed.
renderizar_nome(nome, v) ==
    LET r == IF nome = N("{{PROJECT_NAME}}") THEN v.project_name
             ELSE IF Len(nome) >= 1 /\ nome[1] = "{{PROJECT_NAME}}"
                  THEN v.project_name \o Tail(nome)
             ELSE nome
    IN  IF Len(r) >= 2 /\ r[Len(r)] = "tpl" THEN SubSeq(r, 1, Len(r) - 1) ELSE r

renderizar_caminho_relativo(rel, v) == [i \in 1..Len(rel) |-> renderizar_nome(rel[i], v)]

target_padrao(template) == IF template = Letras["biblioteca"] THEN T_llvm_ir ELSE T_bytecode

\* std::env::var: the value of a variable that is set and is Unicode.
env_var(e, nome) ==
    IF IsSome(e[nome]) /\ Get(e[nome]).uni THEN Some(Get(e[nome]).s) ELSE None

nome_templates == N("templates")

\* CARGO_MANIFEST_DIR, fixed when the program was built.
CargoT == <<N("cargo")>>

localizar_diretorio_templates(f, e, x) ==
    IF IsSome(env_var(e, "PORDOSOL_TEMPLATES_PATH"))
       /\ is_dir(f, <<>>, Get(env_var(e, "PORDOSOL_TEMPLATES_PATH")))
    THEN env_var(e, "PORDOSOL_TEMPLATES_PATH")
    ELSE IF IsSome(env_var(e, "PORDOSOL_HOME"))
            /\ is_dir(f, <<>>, join(Get(env_var(e, "PORDOSOL_HOME")), nome_templates))
    THEN Some(join(Get(env_var(e, "PORDOSOL_HOME")), nome_templates))
    ELSE IF IsSome(x) /\ IsSome(parent(Get(x)))
            /\ is_dir(f, <<>>, join(Get(parent(Get(x))), nome_templates))
    THEN Some(join(Get(parent(Get(x))), nome_templates))
    ELSE IF IsSome(x) /\ IsSome(parent(Get(x))) /\ IsSome(parent(Get(parent(Get(x)))))
            /\ is_dir(f, <<>>, join(Get(parent(Get(parent(Get(x))))), nome_templates))
    THEN Some(join(Get(parent(Get(parent(Get(x))))), nome_templates))
    ELSE IF is_dir(f, <<>>, join(CargoT, nome_templates))
    THEN Some(join(CargoT, nome_templates))
    ELSE None

\* The byte order of the ASCII characters that occur in template names.
OrdemAscii == Digitos \o Maiusculas \o <<"_">> \o Minusculas

\* str::cmp: a is before b in byte order.
RECURSIVE menor_texto(_, _)
menor_texto(a, b) ==
    IF a = <<>> THEN b # <<>>
    ELSE IF b = <<>> THEN FALSE
    ELSE IF Head(a) = Head(b) THEN menor_texto(Tail(a), Tail(b))
    ELSE posicao(OrdemAscii, Head(a)) < posicao(OrdemAscii, Head(b))

\* Vec::sort on a set of distinct names.
RECURSIVE sort(_)
sort(S) ==
    IF S = {} THEN <<>>
    ELSE LET m == CHOOSE x \in S : \A y \in S : x = y \/ menor_texto(x, y)
         IN  <<m>> \o sort(S \ {m})

\* The names of the directories of the templates directory, sorted; the
\* four built-in names when there is no templates directory.
listar_templates_disponiveis(f, e, x, o) ==
    Seja(localizar_diretorio_templates(f, e, x), LAMBDA templates_root :
        IF IsSome(templates_root)
        THEN sort({texto_de_nome(o[i]) :
                      i \in {k \in 1..Len(o) : is_dir(f, <<>>, join(Get(templates_root), o[k]))}})
        ELSE <<Letras["biblioteca"], Letras["classe"], Letras["console"], Letras["web"]>>)

\* pordosol new list: the lines it prints after the heading, or the notice
\* that there is no template.
listar_templates_cmd(f, e, x, o) ==
    Seja(listar_templates_disponiveis(f, e, x, o), LAMBDA templates :
        [op |-> "new_list", fs0 |-> f, res |-> "ok", vazio |-> templates = <<>>,
         templates |-> templates])

\* The state a creation works on: the files, their content, what was
\* printed, and the error that stopped it ("" while there is none).
Criacao(f, ct, saida, erro) == [fs |-> f, ct |-> ct, saida |-> saida, erro |-> erro]

\* fs::write succeeds on a path that is no directory and whose parent is one.
pode_escrever(f, p) ==
    /\ ~is_dir(f, <<>>, p)
    /\ p # <<>>
    /\ is_dir(f, <<>>, SubSeq(p, 1, Len(p) - 1))

\* One file written whole and reported, or the creation stopped.
escrever_arquivo(st, p, texto, t) ==
    IF st.erro # "" THEN st
    ELSE IF ~pode_escrever(st.fs, p) THEN [st EXCEPT !.erro = "falha_ao_escrever"]
    ELSE Criacao(write(st.fs, p, t), (p :> texto) @@ st.ct,
                 Append(st.saida, <<"criado", p>>), "")

\* copiar_ou_renderizar_arquivo: text is rendered, other bytes are copied.
copiar_ou_renderizar_arquivo(st, origem, destino, v, t) ==
    escrever_arquivo(st, destino,
                     IF st.ct[origem].utf8
                     THEN [utf8 |-> TRUE, txt |-> substituir_placeholders(st.ct[origem].txt, v)]
                     ELSE st.ct[origem],
                     t)

\* The body of the loop of aplicar_template_em_arquivos for one template file.
aplicar_arquivo(st, template_dir, origem, destino, nao_sobrescrever, v, t) ==
    Seja(destino \o renderizar_caminho_relativo(
                        SubSeq(origem, Len(template_dir) + 1, Len(origem)), v),
         LAMBDA arquivo_destino :
        IF exists(st.fs, <<>>, arquivo_destino) /\ nao_sobrescrever
        THEN [st EXCEPT !.saida = Append(@, <<"nao_sobrescrito", arquivo_destino>>)]
        ELSE Seja(create_dir_all(st.fs, <<>>, Get(parent(arquivo_destino)), t), LAMBDA f1 :
                 IF ~is_dir(f1, <<>>, Get(parent(arquivo_destino)))
                 THEN [st EXCEPT !.erro = "falha_ao_criar_diretorio"]
                 ELSE copiar_ou_renderizar_arquivo([st EXCEPT !.fs = f1], origem,
                                                   arquivo_destino, v, t)))

RECURSIVE aplicar_arquivos(_, _, _, _, _, _, _, _)
aplicar_arquivos(st, template_dir, arquivos, i, destino, nao_sobrescrever, v, t) ==
    IF i > Len(arquivos) \/ st.erro # "" THEN st
    ELSE Seja(aplicar_arquivo(st, template_dir, arquivos[i], destino, nao_sobrescrever, v, t),
              LAMBDA st1 :
                  aplicar_arquivos(st1, template_dir, arquivos, i + 1, destino,
                                   nao_sobrescrever, v, t))

\* The result of one way of creating: whether it applied, and the state.
Aplicou(b, st) == [aplicou |-> b, st |-> st]

aplicar_template_em_arquivos(st, e, x, o, t, destino, nao_sobrescrever, template, v) ==
    Seja(localizar_diretorio_templates(st.fs, e, x), LAMBDA templates_root :
        IF ~IsSome(templates_root) THEN Aplicou(FALSE, st)
        ELSE Seja(join(Get(templates_root), nome_de_texto(template)), LAMBDA template_dir :
            IF ~is_dir(st.fs, <<>>, template_dir) THEN Aplicou(FALSE, st)
            ELSE Seja(SelectSeq(walkdir(st.fs, o, template_dir),
                                LAMBDA p : is_file(st.fs, <<>>, p)),
                      LAMBDA arquivos :
                          Aplicou(TRUE, aplicar_arquivos(st, template_dir, arquivos, 1, destino,
                                                         nao_sobrescrever, v, t)))))

\* Built-in templates without web.
Embutidos_sem_web == {Letras["console"], Letras["biblioteca"], Letras["classe"]}

Embutidos == {Letras["console"], Letras["web"], Letras["biblioteca"], Letras["classe"]}

Texto(txt) == [utf8 |-> TRUE, txt |-> txt]

\* A manifest whose target_padrao is bytecode for every built-in template.
conteudo_projeto_sempre_bytecode(template, nome_projeto) ==
    Texto(<<<<"nome">>, texto_de_nome(nome_projeto), <<"tipo">>,
            (IF template \in {Letras["biblioteca"], Letras["classe"], Letras["web"]}
             THEN template ELSE Letras["console"]),
            <<"target_padrao">>, T_bytecode>>)

\* The manifest a built-in template writes.
conteudo_projeto(template, nome_projeto) ==
    Texto(<<<<"nome">>, texto_de_nome(nome_projeto), <<"tipo">>,
            (IF template \in {Letras["biblioteca"], Letras["classe"], Letras["web"]}
             THEN template ELSE Letras["console"]),
            <<"target_padrao">>,
            (IF template = Letras["biblioteca"] THEN T_llvm_ir ELSE T_bytecode)>>)

\* The example source a built-in template writes.
exemplo(template) ==
    Texto(<<<<"programa.pr">>,
            (IF template \in {Letras["biblioteca"], Letras["classe"], Letras["web"]}
             THEN template ELSE Letras["console"])>>)

conteudo_readme(nome_projeto) == Texto(<<<<"# ">>, texto_de_nome(nome_projeto)>>)

nome_readme == NE("README", "md")
nome_build == N("build")

\* The manifest and the README of a built-in template: written unless the
\* file exists and must not be overwritten; nothing is printed when skipped.
escrever_se_permitido(st, p, texto, nao_sobrescrever, t) ==
    IF ~exists(st.fs, <<>>, p) \/ ~nao_sobrescrever
    THEN escrever_arquivo(st, p, texto, t)
    ELSE st

\* The example source of a built-in template: skipped with a notice when it
\* exists and must not be overwritten.
escrever_programa(st, p, texto, nao_sobrescrever, t) ==
    IF st.erro # "" THEN st
    ELSE IF exists(st.fs, <<>>, p) /\ nao_sobrescrever
    THEN [st EXCEPT !.saida = Append(@, <<"nao_sobrescrito", p>>)]
    ELSE escrever_arquivo(st, p, texto, t)

aplicar_template_legado(st, t, destino, nao_sobrescrever, template) ==
    IF template \notin Embutidos THEN Aplicou(FALSE, st)
    ELSE
    Seja(create_dir_all(create_dir_all(st.fs, <<>>, join(destino, nome_src), t),
                        <<>>, join(destino, nome_build), t), LAMBDA f1 :
    Seja(IF IsSome(file_name(destino)) THEN Get(file_name(destino)) ELSE <<>>,
         LAMBDA nome_projeto :
    Seja(escrever_se_permitido([st EXCEPT !.fs = f1], join(destino, nome_proj),
                               conteudo_projeto(template, nome_projeto),
                               nao_sobrescrever, t), LAMBDA st1 :
    Seja(escrever_programa(st1, join(join(destino, nome_src), programa_pr),
                           exemplo(template), nao_sobrescrever, t), LAMBDA st2 :
    Seja(IF st2.erro # "" THEN st2
         ELSE escrever_se_permitido(st2, join(destino, nome_readme),
                                    conteudo_readme(nome_projeto), nao_sobrescrever, t),
         LAMBDA st3 : Aplicou(TRUE, st3))))))

\* The outcome of novo_cmd.
FimNovo(res, modo, raiz, template, st) ==
    [res |-> res, modo |-> modo, raiz |-> raiz, template |-> template,
     fs |-> st.fs, ct |-> st.ct, saida |-> st.saida]

novo_com_template(st, e, x, o, t, raiz, nao_sobrescrever, template_final) ==
    Seja(TemplateVars(IF IsSome(file_name(raiz)) THEN Get(file_name(raiz)) ELSE <<>>,
                      gerar_namespace(IF IsSome(file_name(raiz))
                                      THEN Some(texto_de_nome(Get(file_name(raiz))))
                                      ELSE None),
                      target_padrao(template_final)), LAMBDA v :
    Seja(aplicar_template_em_arquivos(st, e, x, o, t, raiz, nao_sobrescrever,
                                      template_final, v), LAMBDA a :
        IF a.st.erro # "" THEN FimNovo(a.st.erro, "arquivos", raiz, template_final, a.st)
        ELSE IF a.aplicou THEN FimNovo("ok", "arquivos", raiz, template_final, a.st)
        ELSE Seja(aplicar_template_legado(st, t, raiz, nao_sobrescrever, template_final),
                  LAMBDA l :
            IF l.st.erro # "" THEN FimNovo(l.st.erro, "legado", raiz, template_final, l.st)
            ELSE IF l.aplicou THEN FimNovo("ok", "legado", raiz, template_final, l.st)
            ELSE FimNovo("template_nao_encontrado", "nenhum", raiz, template_final, st))))

novo_cmd(f, ct, c, e, x, o, t, destino, nao_sobrescrever, template) ==
    Seja(absolutize(c, destino), LAMBDA raiz :
    Seja(create_dir_all(f, <<>>, raiz, t), LAMBDA f1 :
        IF ~is_dir(f1, <<>>, raiz)
        THEN FimNovo("falha_ao_criar_pasta", "nenhum", raiz, template, Criacao(f, ct, <<>>, ""))
        ELSE Seja(create_dir_all(f1, <<>>, join(raiz, nome_build), t), LAMBDA f2 :
             Seja(to_ascii_lowercase(trim_str(template)), LAMBDA template_final :
                 IF template_final = <<>>
                 THEN FimNovo("template_invalido", "nenhum", raiz, template_final,
                              Criacao(f2, ct, <<>>, ""))
                 ELSE novo_com_template(Criacao(f2, ct, <<>>, ""), e, x, o, t, raiz,
                                        nao_sobrescrever, template_final)))))

\* A finished pordosol new: what it was given, the files and their content
\* before and after it, and its outcome.
ComandoNovo(destino, nao_sobrescrever, template, r) ==
    [op |-> "novo", destino |-> destino, nao_sobrescrever |-> nao_sobrescrever,
     template |-> template, fs0 |-> fs, ct0 |-> conteudo, res |-> r.res, modo |-> r.modo,
     raiz |-> r.raiz, template_final |-> r.template, saida |-> r.saida,
     fs1 |-> r.fs, ct1 |-> r.ct]

Novo(Destinos, Templates, max) ==
    /\ Len(hist) < max
    /\ \E destino \in Destinos, nao_sobrescrever \in BOOLEAN, template \in Templates :
       \E r \in {novo_cmd(fs, conteudo, cwd, env, exe, ordem, clock, destino,
                          nao_sobrescrever, template)} :
          /\ fs' = r.fs
          /\ conteudo' = r.ct
          /\ hist' = Append(hist, ComandoNovo(destino, nao_sobrescrever, template, r))
    /\ UNCHANGED <<ordem, env, path_dirs, exe, cwd, clock, proj, diag, raizOut, lista, procs>>

\* pordosol new list
ListarTemplates(max) ==
    /\ Len(hist) < max
    /\ hist' = Append(hist, listar_templates_cmd(fs, env, exe, ordem))
    /\ UNCHANGED <<fs, ordem, env, path_dirs, exe, cwd, clock, proj, diag, raizOut, lista,
                   conteudo, procs>>

MaxNovos == 1

EnvNovo == EnvNames \cup {"PORDOSOL_TEMPLATES_PATH"}

TemplatesT == <<N("t")>>
DestinoT == <<N("w"), N("meu_app")>>

Antigo == Texto(<<<<"antigo">>>>)

\* The template tree under the templates directory r: the directory
\* templates console, api and biblioteca (a manifest alone), and a plain
\* file named web.
ArvoreFs(r) ==
    (join(join(r, N("console")), <<"pordosol", "proj", "tpl">>) :> arquivo0)
        @@ (join(join(join(r, N("console")), nome_src), programa_pr) :> arquivo0)
        @@ (join(join(r, N("api")), nome_readme) :> arquivo0)
        @@ (join(join(r, N("api")), NE("logo", "bin")) :> arquivo0)
        @@ (join(join(join(r, N("api")), nome_src), NE("{{PROJECT_NAME}}", "pr")) :> arquivo0)
        @@ (join(join(r, N("biblioteca")), <<"pordosol", "proj", "tpl">>) :> arquivo0)
        @@ (join(r, N("web")) :> arquivo0)

ArvoreTexto(r) ==
    (join(join(r, N("console")), <<"pordosol", "proj", "tpl">>)
            :> Texto(<<<<"nome">>, PH_PROJECT_NAME, <<"target_padrao">>, PH_TARGET>>))
        @@ (join(join(join(r, N("console")), nome_src), programa_pr)
            :> Texto(<<<<"Namespace: ">>, PH_NAMESPACE>>))
        @@ (join(join(r, N("api")), nome_readme) :> Texto(<<<<"ns ">>, PH_NAMESPACE, <<".">>>>))
        @@ (join(join(r, N("api")), NE("logo", "bin"))
            :> [utf8 |-> FALSE, txt |-> <<PH_NAMESPACE>>])
        @@ (join(join(join(r, N("api")), nome_src), NE("{{PROJECT_NAME}}", "pr"))
            :> Texto(<<PH_PROJECT_NAME>>))
        @@ (join(join(r, N("biblioteca")), <<"pordosol", "proj", "tpl">>)
            :> Texto(<<<<"nome">>, PH_PROJECT_NAME, <<"target_padrao">>, PH_TARGET>>))
        @@ (join(r, N("web")) :> Texto(<<>>))

\* Where the templates directory is, and how it is announced.
LugaresTemplates ==
    {"nenhum", "env", "env_ausente", "env_espacos", "home", "exe", "exe_pai", "cargo"}

RaizTemplates(lugar) ==
    IF lugar \in {"env", "env_espacos"} THEN TemplatesT
    ELSE IF lugar = "home" THEN join(HomeT, nome_templates)
    ELSE IF lugar = "exe" THEN join(<<N("opt"), N("bin")>>, nome_templates)
    ELSE IF lugar = "exe_pai" THEN join(<<N("opt")>>, nome_templates)
    ELSE join(CargoT, nome_templates)

\* The files a creation may find in the destination.
AlvosT ==
    {join(DestinoT, nome_proj), join(join(DestinoT, nome_src), programa_pr),
     join(DestinoT, nome_readme)}

\* The destination before the creation: some target files with old content,
\* or the destination itself a file, or its src a file, or its manifest a
\* directory.
DestinosIniciais ==
    {[fs |-> [p \in A |-> arquivo0], ct |-> [p \in A |-> Antigo]] : A \in SUBSET AlvosT}
        \cup {[fs |-> (DestinoT :> arquivo0), ct |-> (DestinoT :> Antigo)],
              [fs |-> (join(DestinoT, nome_src) :> arquivo0),
               ct |-> (join(DestinoT, nome_src) :> Antigo)],
              [fs |-> (join(DestinoT, nome_proj) :> dir0), ct |-> <<>>]}

InitNovo ==
    /\ \E lugar \in LugaresTemplates, d \in DestinosIniciais :
          /\ fs = IF lugar \in {"nenhum", "env_ausente"} THEN (<<N("w")>> :> dir0) @@ d.fs
                  ELSE ArvoreFs(RaizTemplates(lugar)) @@ (<<N("w")>> :> dir0) @@ d.fs
          /\ conteudo = IF lugar \in {"nenhum", "env_ausente"} THEN d.ct
                        ELSE ArvoreTexto(RaizTemplates(lugar)) @@ d.ct
          /\ env = [n \in EnvNovo |->
                       IF n = "PORDOSOL_TEMPLATES_PATH" /\ lugar \in {"env", "env_ausente"}
                       THEN Raw(TemplatesT)
                       ELSE IF n = "PORDOSOL_TEMPLATES_PATH" /\ lugar = "env_espacos"
                            THEN Raw(<<WS>> \o TemplatesT \o <<WS>>)
                       ELSE IF n = "PORDOSOL_HOME" /\ lugar = "home" THEN Raw(HomeT)
                       ELSE None]
    /\ path_dirs = <<>>
    /\ exe = Some(ExeT)
    /\ cwd = <<N("w")>>
    /\ ordem = <<nome_proj, <<"pordosol", "proj", "tpl">>, nome_src, programa_pr,
                 NE("{{PROJECT_NAME}}", "pr"), NE("logo", "bin"), nome_readme,
                 N("web"), N("console"), N("biblioteca"), N("api")>>
    /\ clock = 1
    /\ proj = None
    /\ diag = None
    /\ raizOut = None
    /\ lista = None
    /\ hist = <<>>
    /\ procs = <<>>

\* The templates asked for, as typed.
TemplatesNovo ==
    {<<" ", "C", "o", "n", "s", "o", "l", "e", " ">>, Letras["web"], Letras["biblioteca"],
     Letras["classe"], Letras["api"], <<"x", "y", "z">>, <<" ", " ">>}

NextNovo ==
    \/ Novo({<<DOT, N("meu_app")>>, DestinoT}, TemplatesNovo, MaxNovos)
    \/ ListarTemplates(MaxNovos)

SpecNovo == InitNovo /\ [][NextNovo]_vars

\* The variables a creation substitutes, from its absolutized destination.
VarsDe(h) ==
    TemplateVars(Get(file_name(h.raiz)),
                 gerar_namespace(Some(texto_de_nome(Get(file_name(h.raiz))))),
                 target_padrao(h.template_final))

\* The directory template a creation applied.
TemplateDirDe(h) ==
    join(Get(localizar_diretorio_templates(h.fs0, env, exe)), nome_de_texto(h.template_final))

\* The target files of a creation, each with the content its template gives it.
AlvosDe(h) ==
    IF h.modo = "legado"
    THEN {[p |-> join(h.raiz, nome_proj),
           texto |-> conteudo_projeto(h.template_final, Get(file_name(h.raiz)))],
          [p |-> join(join(h.raiz, nome_src), programa_pr), texto |-> exemplo(h.template_final)],
          [p |-> join(h.raiz, nome_readme),
           texto |-> conteudo_readme(Get(file_name(h.raiz)))]}
    ELSE IF h.modo = "arquivos"
    THEN LET d == TemplateDirDe(h)
             arquivos == SelectSeq(walkdir(h.fs0, ordem, d), LAMBDA q : is_file(h.fs0, <<>>, q))
         IN  {[p |-> h.raiz \o renderizar_caminho_relativo(
                                   SubSeq(arquivos[k], Len(d) + 1, Len(arquivos[k])), VarsDe(h)),
               texto |-> IF h.ct0[arquivos[k]].utf8
                         THEN Texto(substituir_placeholders(h.ct0[arquivos[k]].txt, VarsDe(h)))
                         ELSE h.ct0[arquivos[k]]] : k \in 1..Len(arquivos)}
    ELSE {}

\* The target kept what it had.
Intacto(h, p) ==
    /\ kind(h.fs1, <<>>, p) = kind(h.fs0, <<>>, p)
    /\ p \in DOMAIN h.ct0 => (p \in DOMAIN h.ct1 /\ h.ct1[p] = h.ct0[p])

\* The target holds the content of its template.
Escrito(h, a) ==
    /\ is_file(h.fs1, <<>>, a.p)
    /\ a.p \in DOMAIN h.ct1 /\ h.ct1[a.p] = a.texto

Avisou(h, p) == \E k \in 1..Len(h.saida) : h.saida[k] = <<"nao_sobrescrito", p>>

Criou(h) == h.op = "novo" /\ h.res = "ok"

\* C12 as stated: in a creation that completes, with the do-not-overwrite
\* flag every target that already exists keeps what it had and is reported
\* as skipped, and every missing target is created with its template's
\* content; without the flag every target is written with its template's
\* content; for directory templates and for built-in templates alike.
C12_Original ==
    \A i \in 1..Len(hist) :
        Criou(hist[i]) =>
            \A a \in AlvosDe(hist[i]) :
                IF hist[i].nao_sobrescrever /\ exists(hist[i].fs0, <<>>, a.p)
                THEN Intacto(hist[i], a.p) /\ Avisou(hist[i], a.p)
                ELSE Escrito(hist[i], a)

\* What holds of the code: the same without the report for the manifest and
\* the README of a built-in template, which are skipped without a notice.
C12_SemAvisoNoLegado ==
    \A i \in 1..Len(hist) :
        Criou(hist[i]) =>
            \A a \in AlvosDe(hist[i]) :
                IF hist[i].nao_sobrescrever /\ exists(hist[i].fs0, <<>>, a.p)
                THEN /\ Intacto(hist[i], a.p)
                     /\ Avisou(hist[i], a.p) <=>
                            ~(/\ hist[i].modo = "legado"
                              /\ a.p \in {join(hist[i].raiz, nome_proj),
                                          join(hist[i].raiz, nome_readme)})
                ELSE Escrito(hist[i], a)

----------------------------------------------------------------------------
(* The diagnosis of the whole toolchain: compiler, interpreter and standard
   library, from one project root. *)

RaizD == <<N("w")>>
S1 == <<N("s1")>>
S2 == <<N("s2")>>

\* The environment-variable values that name a standard library.
LugaresEnvStdlib == {S1, S2}

\* Every other place where a standard library is looked for from RaizD.
LugaresStdlib ==
    {join(join(b, N("tools")), n) :
        b \in {<<N("opt"), N("bin")>>, <<N("opt")>>, HomeT},
        n \in {nome_stdlib, nome_sistema_padrao}}
    \cup {join(b, n) :
        b \in {RaizD, join(RaizD, N("lib")), <<>>, <<N("lib")>>},
        n \in {nome_stdlib, nome_sistema_padrao}}

\* What a place holds: an empty directory, a directory with Sistema.toml, a
\* directory with src, a plain file, or a directory whose Sistema.toml is
\* itself a directory.
EstadosLugar == {"vazio", "toml", "src", "arquivo", "toml_dir"}

FsLugar(p, s) ==
    IF s = "vazio" THEN (p :> dir0)
    ELSE IF s = "toml" THEN (join(p, nome_sistema_toml) :> arquivo0)
    ELSE IF s = "src" THEN (join(p, N("src")) :> dir0)
    ELSE IF s = "arquivo" THEN (p :> arquivo0)
    ELSE (join(p, nome_sistema_toml) :> dir0)

\* At most two places hold something; two at once only in the first three
\* states.
FsStdlib ==
    {<<>>}
        \cup {FsLugar(p, s) : p \in LugaresEnvStdlib \cup LugaresStdlib, s \in EstadosLugar}
        \cup {FsLugar(p, s) @@ FsLugar(q, u) :
                p \in LugaresEnvStdlib \cup LugaresStdlib,
                q \in LugaresStdlib,
                s \in {"vazio", "toml"}, u \in {"toml", "src"}}

\* Where the compiler and the interpreter are: nowhere, at the paths of
\* their override variables, or in the lib directory of the root.
FsToolsD(onde) ==
    IF onde = "env" THEN (XC :> exec0) @@ (XI :> exec0)
    ELSE IF onde = "lib"
    THEN (join(join(RaizD, N("lib")), N("compilador")) :> exec0)
             @@ (join(join(RaizD, N("lib")), N("interpretador")) :> exec0)
    ELSE <<>>

InitDoctor ==
    /\ \E g \in FsStdlib, onde \in {"nenhum", "env", "lib"} :
       \E v1 \in {None, Raw(S1), Raw(<<WS>> \o S1 \o <<WS>>)} :
       \E v2 \in {None, Raw(S2)} :
       \E vh \in {None, Raw(HomeT)} :
          /\ fs = g @@ FsToolsD(onde)
          /\ env = [n \in EnvNames |->
                       IF n = "PORDOSOL_COMPILADOR_PATH" /\ onde = "env" THEN Raw(XC)
                       ELSE IF n = "PORDOSOL_INTERPRETADOR_PATH" /\ onde = "env" THEN Raw(XI)
                       ELSE IF n = "PORDOSOL_STDLIB_PATH" THEN v1
                       ELSE IF n = "PORDOSOL_BIBLIOTECA_PADRAO_PATH" THEN v2
                       ELSE IF n = "PORDOSOL_HOME" THEN vh
                       ELSE None]
    /\ exe \in {None, Some(ExeT)}
    /\ path_dirs = <<UsrT>>
    /\ cwd = RaizD
    /\ ordem = <<>>
    /\ InitResto

\* diagnosticar_toolchain called from the root.
Diagnosticar ==
    /\ diag = None
    /\ \E d \in {diagnosticar_toolchain(fs, cwd, env, exe, path_dirs, RaizD)} :
          diag' = Some([raiz |-> RaizD, d |-> d, pronto |-> pronto(d)])
    /\ UNCHANGED <<fs, ordem, env, path_dirs, exe, cwd, clock, proj, raizOut, lista, hist,
                   conteudo, procs>>

NextDoctor == Diagnosticar

SpecDoctor == InitDoctor /\ [][NextDoctor]_vars

\* Nothing of a toolchain anywhere: no variable set, no entry of the
\* filesystem under a tools, lib, stdlib or sistema-padrao directory, no
\* compiler or interpreter on the search path.
AmbienteVazio ==
    /\ \A n \in DOMAIN env : env[n] = None
    /\ \A p \in DOMAIN fs : \A i \in 1..Len(p) :
          p[i] \notin {N("tools"), N("lib"), nome_stdlib, nome_sistema_padrao}
    /\ \A i \in 1..Len(path_dirs) : \A n \in Ferramentas :
          ~exists(fs, cwd, join(path_dirs[i], N(n)))

\* C13: in an empty environment diagnosticar_toolchain returns a diagnosis
\* whose compiler, interpreter and standard library all have
\* encontrado = FALSE, and pronto() is FALSE.
C13_AmbienteVazio ==
    (IsSome(diag) /\ AmbienteVazio) =>
        /\ ~Get(diag).d.compilador.encontrado
        /\ ~Get(diag).d.interpretador.encontrado
        /\ ~Get(diag).d.stdlib.encontrado
        /\ ~Get(diag).pronto

\* A diagnosis made in an empty environment, next to the executable's own
\* (empty) installation directory.
C13_Witness ==
    /\ IsSome(diag) /\ AmbienteVazio
    /\ exe = Some(ExeT)
    /\ DOMAIN fs = {}
    /\ Get(diag).d.stdlib.origem = "instalacao-cli/tools/stdlib (ausente)"
    /\ Get(diag).d.compilador.origem = "instalacao-cli/tools (ausente)"

----------------------------------------------------------------------------
(* The artifact of run *)

\* <root>/build/<stem>.pbc for the stem of the primary source of the run.
ArtefatoDaFontePrimaria(h) ==
    join(join(h.raiz, N("build")), Append(Get(file_stem(h.fontes[1])), "pbc"))

Valida(p) ==
    /\ kind(fs, cwd, p) = "dir"
    /\ \/ kind(fs, cwd, join(p, nome_sistema_toml)) \in {"file", "exec"}
       \/ kind(fs, cwd, join(p, N("src"))) = "dir"

NomesStdlib == {nome_stdlib, nome_sistema_padrao}

\* The candidates of each tier, both base names in each: 1 the override
\* variables, 2 the tools directories of the installation, 3 the tools
\* directory of PORDOSOL_HOME, 4 the root and its ancestors (and their lib).
CandidatosDaCamada(k) ==
    IF k = 1
    THEN {Get(ler_env_path(env, v)) :
            v \in {w \in {"PORDOSOL_STDLIB_PATH", "PORDOSOL_BIBLIOTECA_PADRAO_PATH"} :
                      IsSome(ler_env_path(env, w))}}
    ELSE IF k = 2
    THEN IF IsSome(exe)
         THEN {join(join(b, N("tools")), n) :
                 b \in {SubSeq(Get(exe), 1, Len(Get(exe)) - 1),
                        SubSeq(Get(exe), 1, Len(Get(exe)) - 2)},
                 n \in NomesStdlib}
         ELSE {}
    ELSE IF k = 3
    THEN IF IsSome(ler_env_path(env, "PORDOSOL_HOME"))
         THEN {join(join(Get(ler_env_path(env, "PORDOSOL_HOME")), N("tools")), n) :
                 n \in NomesStdlib}
         ELSE {}
    ELSE {join(b, n) : b \in {SubSeq(RaizD, 1, j) : j \in 0..Len(RaizD)}
                             \cup {join(SubSeq(RaizD, 1, j), N("lib")) : j \in 0..Len(RaizD)},
                       n \in NomesStdlib}

CamadasStdlib == 1..4

\* C15: the standard library is found exactly when some candidate of some
\* tier (both base names in every tier) is an existing directory with a
\* Sistema.toml file or a src directory; the path returned is such a
\* directory, it is a candidate of the first tier that has one, and it is
\* the first such candidate in the order of the search.
C15_Stdlib ==
    IsSome(diag) =>
        LET d == Get(diag).d.stdlib
            Boas == {k \in CamadasStdlib : \E p \in CandidatosDaCamada(k) : Valida(p)}
            ts == tentativas_stdlib(env, exe, RaizD)
        IN  /\ d.encontrado <=> Boas # {}
            /\ d.encontrado =>
                  /\ Valida(d.caminho)
                  /\ d.caminho \in CandidatosDaCamada(Min(Boas))
                  /\ \E i \in 1..Len(ts) :
                        /\ ts[i].caminho = d.caminho
                        /\ \A j \in 1..(i - 1) : ~Valida(ts[j].caminho)
            /\ {ts[i].caminho : i \in 1..Len(ts)}
                   = UNION {CandidatosDaCamada(k) : k \in CamadasStdlib}

\* The legacy alias accepted in the PORDOSOL_HOME tier, by its src directory,
\* after an empty directory offered by an override variable was rejected.
C15_Witness ==
    /\ IsSome(diag)
    /\ Get(diag).d.stdlib.encontrado
    /\ Get(diag).d.stdlib.caminho = join(join(HomeT, N("tools")), nome_sistema_padrao)
    /\ Get(diag).d.stdlib.origem = "env:PORDOSOL_HOME/tools/sistema-padrao"
    /\ kind(fs, cwd, S1) = "dir" /\ ler_env_path(env, "PORDOSOL_STDLIB_PATH") = Some(S1)
    /\ ~Valida(S1)

----------------------------------------------------------------------------
(* Commands on a path that may have no project above it: the working
   directory lies six levels deep, and a src directory is nowhere, at the
   top (six levels above), five levels above, or in the working directory
   (there also as a plain file). *)

ProfOrfa == 6

CwdO == Cadeia(ProfOrfa)
SoltoPR == join(CwdO, NE("a", "pr"))
SoltoPBC == join(CwdO, NE("x", "pbc"))
SoltoBin == join(CwdO, NE("y", "bin"))

FsSrcO(onde) ==
    IF onde = "topo" THEN (join(<<>>, nome_src) :> dir0)
    ELSE IF onde = "cinco" THEN (join(Cadeia(1), nome_src) :> dir0)
    ELSE IF onde = "aqui" THEN (join(join(CwdO, nome_src), programa_pr) :> arquivo0)
    ELSE IF onde = "arquivo" THEN (join(CwdO, nome_src) :> arquivo0)
    ELSE <<>>

InitOrfa ==
    /\ \E onde \in {"nenhum", "topo", "cinco", "aqui", "arquivo"} :
       \E A \in SUBSET {SoltoPR, SoltoPBC} :
       \E sit \in {<<"env_exec", "env_exec">>, <<"env_ausente", "env_exec">>} :
          /\ fs = FsFerramentas([p \in A |-> arquivo0] @@ FsSrcO(onde) @@ (CwdO :> dir0),
                                sit[1], sit[2])
          /\ env = EnvFerramentas(sit[1], sit[2])
    /\ path_dirs = <<UsrT>>
    /\ exe = None
    /\ cwd = CwdO
    /\ ordem = <<programa_pr>>
    /\ InitResto

RunOrfa ==
    Run({<<<<DOT>>, None>>, <<SoltoPR, None>>, <<<<DOT>>, Some(SoltoPR)>>,
         <<<<DOT>>, Some(SoltoPBC)>>, <<SoltoPR, Some(SoltoBin)>>},
        BOOLEAN, {"ok", "fail"}, {"ok", "fail"}, 1)

BuildOrfa == Build({<<DOT>>, SoltoPR}, {T_bytecode}, {"ok", "fail"}, 1)

NextOrfa == RunOrfa \/ BuildOrfa

SpecOrfa == InitOrfa /\ [][NextOrfa]_vars

\* The directory a command's path stood for when the command started.
DirDoComando(h) ==
    LET a == absolutize(cwd, h.caminho) IN
    IF kind(h.fs0, cwd, a) \in {"file", "exec"} THEN SubSeq(a, 1, Len(a) - 1) ELSE a

\* No src directory in the path's directory or up to 5 levels above it.
SemSrcPerto(h) ==
    \A a \in Ate(DirDoComando(h), 5) : kind(h.fs0, cwd, join(a, nome_src)) # "dir"

\* The ways a command ends: with success or with one of its failures.
Desfechos ==
    {"ok", "sem_fontes", "compilador_nao_encontrado", "interpretador_nao_encontrado",
     "falha_ao_executar_compilador", "compilacao_falhou", "bytecode_nao_encontrado",
     "falha_ao_executar_interpretador", "execucao_falhou"}

\* C16: a command on a path with no src directory in its directory or up to
\* 5 levels above works on the absolutized path itself as its root, be the
\* path a directory or a file, and ends with success or with one of its
\* failures.
C16_RaizSemSrc ==
    \A i \in 1..Len(hist) :
        SemSrcPerto(hist[i]) =>
            /\ hist[i].raiz = absolutize(cwd, hist[i].caminho)
            /\ hist[i].res \in Desfechos

\* A run on a source file with no project around it: the root is the file
\* itself, so the build directory cannot be made and the compiler cannot be
\* started there.
C16_Witness ==
    /\ Len(hist) = 1 /\ hist[1].op = "run"
    /\ hist[1].caminho = SoltoPR
    /\ is_file(hist[1].fs0, cwd, SoltoPR)
    /\ SemSrcPerto(hist[1])
    /\ hist[1].raiz = SoltoPR
    /\ hist[1].fontes = <<SoltoPR>>
    /\ hist[1].res = "falha_ao_executar_compilador"

----------------------------------------------------------------------------
(* Two dep invocations at once on one manifest *)

MaxDepsConc == 2

CmdsConc ==
    {CmdDep(A_add, Some("foo"), Some("1.2.3"), None, <<DOT>>),
     CmdDep(A_add, Some("bar"), Some("2.0.0"), None, <<DOT>>),
     CmdDep(A_remove, Some("foo"), None, None, <<DOT>>),
     CmdDep(A_list, None, None, None, <<DOT>>)}

InitDepDois == InitDep({1, 2})

NextDepConc ==
    \/ DepLer({1, 2}, CmdsConc, MaxDepsConc)
    \/ DepGravar({1, 2})

SpecDepConc == InitDepDois /\ [][NextDepConc]_vars

\* hist[i] and hist[j] are dep add invocations for different names that both
\* wrote, hist[i] first, with no other write between the two.
DoisAdds(i, j) ==
    /\ i < j
    /\ EhAdd(hist[i]) /\ EhAdd(hist[j])
    /\ hist[i].cmd.nome # hist[j].cmd.nome
    /\ \A k \in (i + 1)..(j - 1) : ~IsSome(hist[k].gravado)

\* The writes made before hist[i] wrote.
EscritasAntesDe(i) == Cardinality({k \in 1..(i - 1) : IsSome(hist[k].gravado)})

\* hist[j] read the manifest before hist[i] wrote it.
LeuAntes(i, j) == hist[j].escritas <= EscritasAntesDe(i)

\* C17: of two dep add invocations for different names, when the second to
\* write read the manifest before the first wrote (nothing excludes this: an
\* invocation reads the whole document, changes it in memory and writes the
\* whole document back), the manifest it leaves holds its own entry and, of
\* the first one's entry, only what the manifest held when it read; and when
\* it read after the first wrote, the manifest it leaves holds both entries.
C17_AtualizacaoPerdida ==
    \A i \in 1..Len(hist), j \in 1..Len(hist) :
        DoisAdds(i, j) =>
            LET a == hist[i]
                b == hist[j]
                final == Tabela(Get(b.depois))
                na == Get(a.cmd.nome)
                nb == Get(b.cmd.nome)
            IN  /\ nb \in DOMAIN final
                /\ final[nb] = valor_dep(b.cmd.versao, b.cmd.caminho_local)
                /\ IF LeuAntes(i, j)
                   THEN /\ na \in DOMAIN final <=> na \in DOMAIN Tabela(Get(b.lido))
                        /\ na \in DOMAIN final => final[na] = Tabela(Get(b.lido))[na]
                   ELSE /\ na \in DOMAIN final
                        /\ final[na] = valor_dep(a.cmd.versao, a.cmd.caminho_local)

\* The lost update: add foo and add bar both read the empty table, both
\* wrote and both returned success, and the manifest holds bar alone.
C17_Witness ==
    /\ Len(hist) = 2
    /\ DoisAdds(1, 2) /\ LeuAntes(1, 2)
    /\ hist[1].p # hist[2].p
    /\ DOMAIN Tabela(Get(hist[1].lido)) = {}
    /\ hist[1].cmd.nome = Some("foo") /\ hist[2].cmd.nome = Some("bar")
    /\ hist[1].res = "ok" /\ hist[2].res = "ok"
    /\ DOMAIN Tabela(conteudo[ProjT]) = {"bar"}

----------------------------------------------------------------------------
(* The compiler command line of build *)

\* The target names build knows, each with its flag.
FlagsConhecidas ==
    {<<T_bytecode, "--target=bytecode">>, <<T_bc, "--target=bytecode">>,
     <<T_llvm, "--target=llvm-ir">>, <<T_llvm_ir, "--target=llvm-ir">>,
     <<T_cil, "--target=cil-bytecode">>, <<T_console, "--target=console">>,
     <<T_universal, "--target=universal">>}

\* The effective target of a build: the manifest's default in place of a
\* plain "bytecode", trimmed and lower-cased.
AlvoEfetivo(h) == to_ascii_lowercase(trim_str(target_final(h.proj0, h.target)))

\* C18: a build that starts the compiler passes the flag its effective
\* target (trimmed, lower-cased) maps to, --target=bytecode with a warning
\* for a target it does not know, and then the sources in the order of the
\* list; an unknown target alone does not make the build fail.
C18_AlvoFlag ==
    \A i \in 1..Len(hist) :
        LET h == hist[i] IN
        (h.op = "build" /\ h.lancados # <<>>) =>
            LET l == h.lancados[1]
                M == {m \in FlagsConhecidas : m[1] = AlvoEfetivo(h)}
            IN  /\ Len(h.lancados) = 1 /\ l.prog = "compilador"
                /\ \A m \in M : l.flag = m[2]
                /\ M # {} => ~l.aviso
                /\ M = {} => (l.flag = "--target=bytecode" /\ l.aviso)
                /\ l.arqs = h.fontes
                /\ l.arqs = listar_prs(h.fs0, ordem, h.raiz)
                /\ l.status = "ok" => h.res = "ok"

\* A build for the unknown target x: the warning, the bytecode flag, both
\* sources after it with programa.pr first, and success.
C18_Witness ==
    /\ Len(hist) = 1 /\ hist[1].op = "build"
    /\ hist[1].target = <<"x">>
    /\ Len(hist[1].lancados) = 1
    /\ hist[1].lancados[1].aviso
    /\ hist[1].lancados[1].flag = "--target=bytecode"
    /\ hist[1].lancados[1].arqs = <<PR1, PR2>>
    /\ hist[1].res = "ok"

----------------------------------------------------------------------------
(* Which template a creation uses, and when it is not found *)

\* The name a creation looks its template up by.
NomePedido(h) == to_ascii_lowercase(trim_str(h.template))

\* The templates directory holds a directory of the requested name.
TemDiretorio(h) ==
    LET r == localizar_diretorio_templates(h.fs0, env, exe) IN
    /\ NomePedido(h) # <<>>
    /\ IsSome(r)
    /\ is_dir(h.fs0, <<>>, join(Get(r), nome_de_texto(NomePedido(h))))

\* The four built-in templates, as the claim names them.
QuatroEmbutidos ==
    {Letras["console"], Letras["biblioteca"], Letras["classe"], Letras["web"]}

TemEmbutido(h) == NomePedido(h) \in QuatroEmbutidos

\* The creation stopped on the file system: the project directory, a
\* directory of a target or a target could not be written.
ErroDeEscrita(h) ==
    h.res \in {"falha_ao_criar_pasta", "falha_ao_criar_diretorio", "falha_ao_escrever"}

\* The manifest, src/programa.pr and the README of the built-in template are
\* in place: written, or kept when they existed and must not be overwritten.
TresArquivos(h) ==
    /\ Cardinality(AlvosDe(h)) = 3
    /\ \A a \in AlvosDe(h) :
          IF h.nao_sobrescrever /\ exists(h.fs0, <<>>, a.p)
          THEN Intacto(h, a.p) ELSE Escrito(h, a)

----------------------------------------------------------------------------
(* gerar_namespace on base names of bounded length *)

MaxLenNs == 4

\* The characters of the base names tried: a lower-case and an upper-case
\* letter, a digit, two ASCII separators and a letter outside ASCII.
AlfabetoNs == {"a", "B", "2", "_", "-", "é"}

RECURSIVE SeqsAte(_, _)
SeqsAte(S, n) ==
    IF n = 0 THEN {<<>>}
    ELSE LET menores == SeqsAte(S, n - 1) IN
         menores \cup {Append(s, ch) : s \in {m \in menores : Len(m) = n - 1}, ch \in S}

\* The base names of the destination: None for a path without one.
NomesNs ==
    {None} \cup {Some(s) : s \in SeqsAte(AlfabetoNs, MaxLenNs) \cup {Letras["meu_app"], Letras["2d"]}}

\* A creation waits with the base name of its destination.
InitNs ==
    /\ procs \in {<<[op |-> "namespace", nome |-> n]>> : n \in NomesNs}
    /\ fs = <<>>
    /\ env = [n \in EnvNames |-> None]
    /\ path_dirs = <<>>
    /\ exe = None
    /\ cwd = <<>>
    /\ ordem = <<>>
    /\ clock = 1
    /\ proj = None
    /\ diag = None
    /\ raizOut = None
    /\ lista = None
    /\ hist = <<>>
    /\ conteudo = <<>>

\* novo_cmd derives the namespace of the destination.
GerarNamespace ==
    /\ procs # <<>>
    /\ hist' = Append(hist, [op |-> "namespace", nome |-> procs[1].nome,
                             ns |-> gerar_namespace(procs[1].nome)])
    /\ procs' = Tail(procs)
    /\ UNCHANGED <<fs, ordem, env, path_dirs, exe, cwd, clock, proj, diag, raizOut, lista,
                   conteudo>>

NextNs == GerarNamespace

SpecNs == InitNs /\ [][NextNs]_vars

\* The positions where a token of s starts: an ASCII letter or digit that
\* follows the start of the name or another kind of character.
IniciosDe(s) ==
    {i \in 1..Len(s) :
        is_ascii_alphanumeric(s[i]) /\ (i = 1 \/ ~is_ascii_alphanumeric(s[i - 1]))}

\* The last position of the token that starts at i.
FimDoToken(s, i) ==
    CHOOSE j \in i..Len(s) :
        /\ \A k \in i..j : is_ascii_alphanumeric(s[k])
        /\ (j = Len(s) \/ ~is_ascii_alphanumeric(s[j + 1]))

\* A token as the namespace shows it.
TokenRenderizado(tok) ==
    (IF tok[1] \in Range(Digitos) THEN <<"_", tok[1]>> ELSE <<to_ascii_uppercase(tok[1])>>)
        \o to_ascii_lowercase(SubSeq(tok, 2, Len(tok)))

\* The tokens that start at the positions I, rendered, in order, with dots.
RECURSIVE NamespaceDosTokens(_, _)
NamespaceDosTokens(s, I) ==
    IF I = {} THEN <<>>
    ELSE LET i == CHOOSE x \in I : \A y \in I : x <= y
             resto == I \ {i}
         IN  TokenRenderizado(SubSeq(s, i, FimDoToken(s, i)))
                 \o (IF resto = {} THEN <<>> ELSE <<".">> \o NamespaceDosTokens(s, resto))

\* C20: the namespace of a base name is its maximal runs of ASCII letters
\* and digits, each with its first letter upper-cased (a leading digit kept
\* behind an underscore) and the rest lower-cased, joined with dots in the
\* order of the name; Projeto when the name has no such run.
C20_Namespace ==
    \A i \in 1..Len(hist) :
        (hist[i].op = "namespace" /\ IsSome(hist[i].nome)) =>
            LET s == Get(hist[i].nome) IN
            hist[i].ns = IF IniciosDe(s) = {} THEN NS_Projeto
                         ELSE NamespaceDosTokens(s, IniciosDe(s))

\* meu_app gives Meu.App.
C20_Witness ==
    /\ Len(hist) = 1 /\ hist[1].op = "namespace"
    /\ hist[1].nome = Some(<<"m", "e", "u", "_", "a", "p", "p">>)
    /\ hist[1].ns = <<"M", "e", "u", ".", "A", "p", "p">>

----------------------------------------------------------------------------
(* The manifest of a created project *)

\* The value that follows the key in a manifest text, if the key is there.
CampoDe(t, chave) ==
    LET I == {i \in 1..(Len(t.txt) - 1) : t.txt[i] = chave} IN
    IF I = {} THEN None ELSE Some(t.txt[(CHOOSE i \in I : \A j \in I : i <= j) + 1])

\* The default target of a template, as the claim gives it.
AlvoDoTemplate(h) ==
    IF NomePedido(h) = Letras["biblioteca"] THEN T_llvm_ir ELSE T_bytecode

\* The manifest of the created project names the project after the base
\* name of its destination and has the default target of its template.
ManifestoConforme(h) ==
    LET p == join(h.raiz, nome_proj) IN
    /\ is_file(h.fs1, <<>>, p)
    /\ p \in DOMAIN h.ct1
    /\ CampoDe(h.ct1[p], <<"nome">>) = Some(texto_de_nome(Get(file_name(h.raiz))))
    /\ CampoDe(h.ct1[p], <<"target_padrao">>) = Some(AlvoDoTemplate(h))

ProgramaExiste(h) == exists(h.fs1, <<>>, join(join(h.raiz, nome_src), programa_pr))

\* The template of the creation has a file for the given file of the
\* project, under its own name or with the template suffix: every built-in
\* template has the manifest and src/programa.pr.
TemplateTem(h, rel) ==
    \/ h.modo = "legado"
    \/ /\ h.modo = "arquivos"
       /\ LET d == TemplateDirDe(h)
               dir == SubSeq(rel, 1, Len(rel) - 1)
               nome == rel[Len(rel)]
           IN  \/ is_file(h.fs0, <<>>, d \o rel)
               \/ is_file(h.fs0, <<>>, d \o dir \o <<nome \o <<"tpl">>>>)

\* C21 as stated: every creation that succeeds leaves a manifest with the
\* base name of the destination and the default target of the template, and
\* src/programa.pr exists.
C21_Original ==
    \A i \in 1..Len(hist) :
        Criou(hist[i]) => (ManifestoConforme(hist[i]) /\ ProgramaExiste(hist[i]))

\* C21: a creation that succeeds from a template that has a manifest leaves
\* that manifest with the base name of the destination and the default
\* target of the template (llvm-ir for biblioteca, bytecode otherwise),
\* except a manifest that existed and must not be overwritten, which keeps
\* what it had; src/programa.pr exists when the template has one, as every
\* built-in template has.
C21_ManifestoDoTemplate ==
    \A i \in 1..Len(hist) :
        LET h == hist[i]
            p == join(h.raiz, nome_proj)
        IN  Criou(h) =>
                /\ TemplateTem(h, <<nome_proj>>) =>
                       IF h.nao_sobrescrever /\ exists(h.fs0, <<>>, p)
                       THEN Intacto(h, p)
                       ELSE ManifestoConforme(h)
                /\ TemplateTem(h, <<nome_src, programa_pr>>) => ProgramaExiste(h)
                /\ ~TemplateTem(h, <<nome_proj>>) => Intacto(h, p)

\* new biblioteca with no templates directory: the manifest of meu_app with
\* llvm-ir, and src/programa.pr.
C21_Witness ==
    /\ Len(hist) = 1 /\ Criou(hist[1])
    /\ hist[1].modo = "legado"
    /\ hist[1].template = Letras["biblioteca"]
    /\ ~exists(hist[1].fs0, <<>>, join(hist[1].raiz, nome_proj))
    /\ ManifestoConforme(hist[1])
    /\ CampoDe(hist[1].ct1[join(hist[1].raiz, nome_proj)], <<"target_padrao">>) = Some(T_llvm_ir)
    /\ CampoDe(hist[1].ct1[join(hist[1].raiz, nome_proj)], <<"nome">>) = Some(Letras["meu_app"])
    /\ ProgramaExiste(hist[1])

----------------------------------------------------------------------------
(* The listing of the templates *)

\* The names a listing shows.
Listados(h) == Range(h.templates)

\* A variable of the environment names a directory, joined with the given
\* names.
VarApontaDir(h, nome, sufixo) ==
    /\ IsSome(env[nome]) /\ Get(env[nome]).uni
    /\ is_dir(h.fs0, <<>>, Get(env[nome]).s \o sufixo)

\* Neither PORDOSOL_TEMPLATES_PATH nor PORDOSOL_HOME gives a templates
\* directory.
SemTemplatesConfigurados(h) ==
    /\ ~VarApontaDir(h, "PORDOSOL_TEMPLATES_PATH", <<>>)
    /\ ~VarApontaDir(h, "PORDOSOL_HOME", <<nome_templates>>)

\* There is no templates directory beside the executable, above it, or in
\* the directory the program was built in.
SemTemplatesInstalados(h) ==
    /\ IsSome(exe) =>
          /\ ~is_dir(h.fs0, <<>>, SubSeq(Get(exe), 1, Len(Get(exe)) - 1) \o <<nome_templates>>)
          /\ ~is_dir(h.fs0, <<>>, SubSeq(Get(exe), 1, Len(Get(exe)) - 2) \o <<nome_templates>>)
    /\ ~is_dir(h.fs0, <<>>, CargoT \o <<nome_templates>>)

\* C22 as stated: with no templates directory given by the environment the
\* listing has the four built-in names.
C22_Original ==
    \A i \in 1..Len(hist) :
        (hist[i].op = "new_list" /\ SemTemplatesConfigurados(hist[i])) =>
            QuatroEmbutidos \subseteq Listados(hist[i])

\* What holds of the code (C22): with no templates directory given by the
\* environment and none beside the executable, above it or in the build
\* directory, the listing is the four built-in names biblioteca, classe,
\* console, web.
C22_ListaEmbutidos ==
    \A i \in 1..Len(hist) :
        (/\ hist[i].op = "new_list"
         /\ SemTemplatesConfigurados(hist[i])
         /\ SemTemplatesInstalados(hist[i])) =>
            /\ QuatroEmbutidos \subseteq Listados(hist[i])
            /\ Len(hist[i].templates) = 4
            /\ ~hist[i].vazio

\* PORDOSOL_TEMPLATES_PATH names a directory that does not exist, there is
\* no other templates directory, and the listing shows the four built-in
\* names.
C22_Witness ==
    /\ Len(hist) = 1 /\ hist[1].op = "new_list"
    /\ IsSome(env["PORDOSOL_TEMPLATES_PATH"])
    /\ SemTemplatesConfigurados(hist[1])
    /\ hist[1].templates =
           <<Letras["biblioteca"], Letras["classe"], Letras["console"], Letras["web"]>>

----------------------------------------------------------------------------
(* The subprocesses of one run *)

\* The positions of the launches of a program in a command.
LancamentosDe(h, prog) == {k \in 1..Len(h.lancados) : h.lancados[k].prog = prog}

\* C23: a run starts the compiler at most once and the interpreter at most
\* once, the interpreter last and only when the compilation was skipped or
\* exited with success; when the compiler fails or cannot be started the
\* run fails and the interpreter is not started.
C23_UmaVezCada ==
    \A i \in 1..Len(hist) :
        LET h == hist[i]
            C == LancamentosDe(h, "compilador")
            I == LancamentosDe(h, "interpretador")
        IN  h.op = "run" =>
                /\ Cardinality(C) <= 1
                /\ Cardinality(I) <= 1
                /\ C \cup I = 1..Len(h.lancados)
                /\ \A k \in C : \A m \in I : k < m
                /\ I # {} => \A k \in C : h.lancados[k].status = "ok"
                /\ \A k \in C :
                      h.lancados[k].status # "ok" => (h.res # "ok" /\ I = {})
                /\ (C # {}) <=> (h.precisa = Some(TRUE))

\* A run whose compiler exits with a failure: the run fails and that was
\* its only subprocess.
C23_Witness ==
    /\ Len(hist) = 1 /\ hist[1].op = "run"
    /\ Len(hist[1].lancados) = 1
    /\ hist[1].lancados[1].prog = "compilador"
    /\ hist[1].lancados[1].status = "fail"
    /\ hist[1].res = "compilacao_falhou"

----------------------------------------------------------------------------
(* The tie of the staleness check *)

\* The artifact exists, force is unset, and the modification times of the
\* artifact and of every source can be read.
TemposLegiveis(h) ==
    /\ Decidiu(h) /\ ~h.force
    /\ ArtefatoExiste(h)
    /\ IsSome(TempoDe(h, Get(h.pbc)))
    /\ \A k \in 1..Len(h.fontes) : IsSome(TempoDe(h, h.fontes[k]))

\* C24: with the artifact in place, force unset and every modification time
\* readable, a run whose sources are all as old as the artifact or older
\* (a source of exactly the artifact's time included) does not start the
\* compiler; a run that starts it has a source strictly newer than the
\* artifact.
C24_Empate ==
    \A i \in 1..Len(hist) :
        LET h == hist[i] IN
        TemposLegiveis(h) =>
            /\ (\A k \in 1..Len(h.fontes) :
                    Get(TempoDe(h, h.fontes[k])) <= Get(TempoDe(h, Get(h.pbc))))
                   => ~Compilou(h)
            /\ Compilou(h) =>
                   \E k \in 1..Len(h.fontes) :
                       Get(TempoDe(h, h.fontes[k])) > Get(TempoDe(h, Get(h.pbc)))

\* A run without flags on two sources, one of exactly the artifact's
\* modification time and none newer: the interpreter alone is started.
C24_Witness ==
    /\ Len(hist) = 1
    /\ TemposLegiveis(hist[1]) /\ ~hist[1].no_build /\ ~ArtefatoExplicito(hist[1])
    /\ Len(hist[1].fontes) = 2
    /\ TempoDe(hist[1], hist[1].fontes[1]) = TempoDe(hist[1], Get(hist[1].pbc))
    /\ Get(TempoDe(hist[1], hist[1].fontes[2])) <= Get(TempoDe(hist[1], Get(hist[1].pbc)))
    /\ ~Compilou(hist[1]) /\ Interpretou(hist[1])

----------------------------------------------------------------------------
(* The legacy fallback tier from deep project roots *)

ProfLib == 7

\* lib/<name> in the directory of depth i of the chain.
LibEm(i, nome) == join(join(Cadeia(i), N("lib")), N(nome))

\* The chain of directories d/d/.../d down to depth ProfLib; lib/compilador
\* is a file at some of its levels and a directory at one level at most; no
\* variable is set and the search path is empty, so resolution reaches the
\* fallback tier.
InitLib ==
    /\ \E A \in SUBSET (0..ProfLib), D \in SUBSET (0..ProfLib) :
          /\ Cardinality(D) <= 1
          /\ fs = [p \in {Cadeia(ProfLib)} \cup {LibEm(i, "compilador") : i \in A \cup D}
                      |-> IF p = Cadeia(ProfLib) THEN dir0
                          ELSE IF Len(p) - 2 \in D THEN dir0 ELSE exec0]
    /\ env = [n \in EnvNames |-> None]
    /\ path_dirs = <<>>
    /\ exe = None
    /\ cwd = Cadeia(ProfLib)
    /\ ordem = <<>>
    /\ InitResto

\* localizar_executavel called for one tool from a project root of the chain.
LocalizarLib ==
    /\ diag = None
    /\ \E nome \in Ferramentas, k \in 0..ProfLib :
          diag' = Some([nome |-> nome, raiz |-> Cadeia(k),
                        d |-> localizar_executavel(fs, cwd, env, exe, path_dirs,
                                                   nome, VarDe(nome), Cadeia(k))])
    /\ UNCHANGED <<fs, ordem, env, path_dirs, exe, cwd, clock, proj, raizOut, lista, hist,
                   conteudo, procs>>

NextLib == LocalizarLib

SpecLib == InitLib /\ [][NextLib]_vars

\* How many levels above the root of depth k hold lib/<name> as a regular
\* file, among the root and its 5 nearest ancestors.
NiveisComBinario(k, nome) ==
    {j \in 0..5 : j <= k /\ kind(fs, cwd, LibEm(k - j, nome)) \in {"file", "exec"}}

\* C25: the fallback tier returns lib/<name> of the nearest of the project
\* root and its 5 nearest ancestors that has it as a regular file, and finds
\* nothing when none of these has, whatever lies 6 or more levels above.
C25_SeisNiveis ==
    IsSome(diag) =>
        LET r == Get(diag)
            k == Len(r.raiz)
            J == NiveisComBinario(k, r.nome)
        IN  IF J = {}
            THEN ~r.d.encontrado
            ELSE /\ r.d.encontrado
                 /\ r.d.origem = "fallback:./lib"
                 /\ r.d.caminho = LibEm(k - Min(J), r.nome)

\* The compiler exists only in the lib of the directory 6 levels above the
\* project root, and is not found.
C25_Witness ==
    /\ IsSome(diag)
    /\ Get(diag).nome = "compilador"
    /\ Len(Get(diag).raiz) = ProfLib
    /\ kind(fs, cwd, LibEm(ProfLib - 6, "compilador")) = "exec"
    /\ \A i \in 0..ProfLib : i # ProfLib - 6 => ~exists(fs, cwd, LibEm(i, "compilador"))
    /\ ~Get(diag).d.encontrado

----------------------------------------------------------------------------
(* clean (main.rs) *)

\* The entries fs::read_dir yields for a directory: the paths one level
\* below it that exist.
read_dir(f, d) ==
    {SubSeq(q, 1, Len(d) + 1) : q \in {r \in DOMAIN f : IsProperPrefix(d, r)}}

\* The filesystem without the path p and everything below it.
remover_arvore(f, p) ==
    [q \in {r \in DOMAIN f : r # p /\ ~IsProperPrefix(p, r)} |-> f[q]]

\* The loop of clean_cmd over the entries: a regular file is removed with
\* remove_file, a directory with remove_dir_all, and an entry that is
\* neither (a FIFO, a socket) is passed over.
RECURSIVE limpar_entradas(_, _)
limpar_entradas(f, E) ==
    IF E = {} THEN [fs |-> f, count |-> 0]
    ELSE LET p == CHOOSE x \in E : TRUE
             r == limpar_entradas(f, E \ {p})
         IN  IF is_file(f, <<>>, p) \/ is_dir(f, <<>>, p)
             THEN [fs |-> remover_arvore(r.fs, p), count |-> r.count + 1]
             ELSE r

\* The outcome of clean_cmd.
FimClean(res, raiz, count, f) == [res |-> res, raiz |-> raiz, count |-> count, fs |-> f]

clean_cmd(f, c, caminho) ==
    Seja(localizar_raiz(f, c, caminho), LAMBDA raiz :
    Seja(join(raiz, nome_build), LAMBDA build_dir :
        IF ~exists(f, <<>>, build_dir) THEN FimClean("ok", raiz, 0, f)
        ELSE IF ~is_dir(f, <<>>, build_dir) THEN FimClean("falha_ao_ler_build", raiz, 0, f)
        ELSE Seja((build_dir :> (IF build_dir \in DOMAIN f THEN f[build_dir] ELSE dir0)) @@ f,
                  LAMBDA f1 :
             Seja(limpar_entradas(f1, read_dir(f1, build_dir)), LAMBDA r :
                 FimClean("ok", raiz, r.count, r.fs)))))

\* pordosol clean
Clean(Caminhos, max) ==
    /\ Len(hist) < max
    /\ \E caminho \in Caminhos :
       \E r \in {clean_cmd(fs, cwd, caminho)} :
          /\ fs' = r.fs
          /\ hist' = Append(hist, [op |-> "clean", caminho |-> caminho, fs0 |-> fs,
                                   fs1 |-> r.fs, res |-> r.res, raiz |-> r.raiz,
                                   count |-> r.count])
    /\ UNCHANGED <<ordem, env, path_dirs, exe, cwd, clock, proj, diag, raizOut, lista,
                   conteudo, procs>>

MaxCleans == 2

\* An entry that is neither a regular file nor a directory.
especial0 == [kind |-> "especial", mt |-> 0]

\* What build/ may hold: an artifact, a directory with a file, an empty
\* directory, a FIFO, and a FIFO inside a directory.
EntradasBuild ==
    {<<join(BuildT, NE("programa", "pbc")), arquivo0>>,
     <<join(join(BuildT, N("cache")), NE("a", "o")), arquivo0>>,
     <<join(BuildT, N("vazio")), dir0>>,
     <<join(BuildT, N("fifo")), especial0>>,
     <<join(join(BuildT, N("cache")), N("fifo")), especial0>>}

\* The project /w/p with its source, a file beside the build directory, and
\* the build directory absent, a file, empty, or with some of its entries.
InitClean ==
    /\ \E modo \in {"ausente", "arquivo", "dir"}, E \in SUBSET EntradasBuild :
          /\ modo # "dir" => E = {}
          /\ fs = [p \in {PR1, join(RaizT, NE("build", "log"))}
                          \cup (IF modo = "ausente" THEN {} ELSE {BuildT})
                          \cup {e[1] : e \in E}
                      |-> IF p = BuildT THEN (IF modo = "arquivo" THEN arquivo0 ELSE dir0)
                          ELSE IF \E e \in E : e[1] = p
                          THEN (CHOOSE e \in E : e[1] = p)[2]
                          ELSE arquivo0]
    /\ env = [n \in EnvNames |-> None]
    /\ path_dirs = <<>>
    /\ exe = None
    /\ cwd = RaizT
    /\ ordem = <<>>
    /\ InitResto

NextClean == Clean({<<DOT>>, RaizT, PR1, SrcT}, MaxCleans)

SpecClean == InitClean /\ [][NextClean]_vars

\* The build directory of a clean.
BuildDe(h) == join(h.raiz, nome_build)

\* The paths that exist in a filesystem, with the kind of each.
Existentes(f) ==
    UNION {{<<SubSeq(q, 1, n), kind(f, <<>>, SubSeq(q, 1, n))>> : n \in 0..Len(q)} :
              q \in DOMAIN f}

\* Nothing outside the build directory changed.
ForaIntacto(h) ==
    /\ {x \in Existentes(h.fs1) : x[1] # BuildDe(h) /\ ~IsProperPrefix(BuildDe(h), x[1])}
           = {x \in Existentes(h.fs0) : x[1] # BuildDe(h) /\ ~IsProperPrefix(BuildDe(h), x[1])}
    /\ \A p \in DOMAIN h.fs0 :
          (p # BuildDe(h) /\ ~IsProperPrefix(BuildDe(h), p)) =>
              (p \in DOMAIN h.fs1 /\ h.fs1[p] = h.fs0[p])

\* C26 as stated: after a successful clean the build directory exists and
\* has no entries and nothing outside it changed; a clean without a build
\* directory succeeds and changes nothing.
C26_Original ==
    \A i \in 1..Len(hist) :
        LET h == hist[i] IN
        h.op = "clean" =>
            /\ ~exists(h.fs0, <<>>, BuildDe(h)) => (h.res = "ok" /\ h.fs1 = h.fs0)
            /\ (h.res = "ok" /\ exists(h.fs0, <<>>, BuildDe(h))) =>
                   /\ is_dir(h.fs1, <<>>, BuildDe(h))
                   /\ read_dir(h.fs1, BuildDe(h)) = {}
                   /\ ForaIntacto(h)

\* What holds of the code (C26): as stated, except that the entries of the
\* build directory that are neither a regular file nor a directory stay.
C26_FicamOsEspeciais ==
    \A i \in 1..Len(hist) :
        LET h == hist[i] IN
        h.op = "clean" =>
            /\ ~exists(h.fs0, <<>>, BuildDe(h)) => (h.res = "ok" /\ h.fs1 = h.fs0)
            /\ (h.res = "ok" /\ exists(h.fs0, <<>>, BuildDe(h))) =>
                   /\ is_dir(h.fs1, <<>>, BuildDe(h))
                   /\ read_dir(h.fs1, BuildDe(h))
                          = {p \in read_dir(h.fs0, BuildDe(h)) :
                                kind(h.fs0, <<>>, p) = "especial"}
                   /\ ForaIntacto(h)

\* A clean of a build directory with an artifact and a directory: both are
\* gone, the directory is still there.
C26_Witness ==
    /\ Len(hist) = 1 /\ hist[1].op = "clean" /\ hist[1].res = "ok"
    /\ Cardinality(read_dir(hist[1].fs0, BuildDe(hist[1]))) = 2
    /\ hist[1].count = 2
    /\ is_dir(hist[1].fs1, <<>>, BuildDe(hist[1]))
    /\ read_dir(hist[1].fs1, BuildDe(hist[1])) = {}


----------------------------------------------------------------------------
(* The manifest's default target in build *)

MaxBuilds == 2

\* A manifest whose configuracao has no string target_padrao.
ManifestoSemAlvo == [target_padrao |-> None]

InitAlvo ==
    /\ \E s2 \in {Ausente, MaxTime} :
          fs = FsFerramentas(
                  ComArquivo(ComArquivo([p \in {SrcT} |-> dir0], PR1, 0), PR2, s2),
                  "env_exec", "env_exec")
    /\ env = EnvFerramentas("env_exec", "env_exec")
    /\ path_dirs = <<UsrT>>
    /\ exe = None
    /\ cwd = RaizT
    /\ ordem = <<NE("a", "pr"), programa_pr>>
    /\ proj \in {None, Some(Manifesto), Some(ManifestoSemAlvo)}
    /\ clock = MaxTime
    /\ diag = None
    /\ raizOut = None
    /\ lista = None
    /\ hist = <<>>
    /\ conteudo = <<>>
    /\ procs = <<>>

NextAlvo ==
    Build({<<DOT>>},
          {T_bytecode, <<" ", "B", "C">>, <<"B", "y", "t", "e", "c", "o", "d", "e">>,
           T_cil, <<"x">>},
          {"ok", "fail"}, MaxBuilds)

SpecAlvo == InitAlvo /\ [][NextAlvo]_vars

\* The manifest of the build exists and its configuracao.target_padrao is
\* a string.
TemAlvoPadrao(h) == IsSome(h.proj0) /\ IsSome(Get(h.proj0).target_padrao)

\* The target the claim says the build compiles for.
AlvoDeclarado(h) ==
    IF h.target = T_bytecode /\ TemAlvoPadrao(h)
    THEN Get(Get(h.proj0).target_padrao) ELSE h.target

----------------------------------------------------------------------------
(* What dep writes *)

\* The invocation found a manifest with a dependency table.
LeuTabela(h) ==
    IsSome(h.lido) /\ Get(h.lido).valido /\ IsSome(Get(h.lido).dependencias)

\* The invocation is an add with a name, or a remove of a name the table it
\* read holds.
AddOuRemovePresente(h) ==
    /\ LeuTabela(h)
    /\ IsSome(h.cmd.nome)
    /\ \/ AcaoDe(h) = A_add
       \/ /\ AcaoDe(h) \in {A_remove, A_rm}
          /\ Get(h.cmd.nome) \in DOMAIN Tabela(Get(h.lido))

\* Between the documents a and b only the entry n of the table differs.
SoMudou(a, b, n) ==
    /\ b.valido = a.valido
    /\ b.campos = a.campos
    /\ IsSome(b.dependencias)
    /\ (DOMAIN Tabela(b)) \ {n} = (DOMAIN Tabela(a)) \ {n}
    /\ \A k \in (DOMAIN Tabela(a)) \ {n} : Tabela(b)[k] = Tabela(a)[k]

\* C28: dep writes the manifest exactly on an add with a name and on a
\* remove of a name the table holds; every other invocation (list, remove of
\* an absent name, an unknown action, a missing name, a missing manifest, a
\* manifest without a dependencias object) writes nothing and leaves the
\* document as it was; and what an add or a remove writes differs from what
\* it read in the named entry of the table only: the new value after an add,
\* no entry after a remove.
C28_SoONomeado ==
    \A i \in 1..Len(hist) :
        LET h == hist[i] IN
        h.op = "dep" =>
            /\ IsSome(h.gravado) <=> AddOuRemovePresente(h)
            /\ ~AddOuRemovePresente(h) => h.depois = h.lido
            /\ AddOuRemovePresente(h) =>
                  LET n == Get(h.cmd.nome) IN
                  /\ h.res = "ok"
                  /\ h.depois = h.gravado
                  /\ SoMudou(Get(h.lido), Get(h.gravado), n)
                  /\ AcaoDe(h) = A_add =>
                        /\ n \in DOMAIN Tabela(Get(h.gravado))
                        /\ Tabela(Get(h.gravado))[n]
                               = valor_dep(h.cmd.versao, h.cmd.caminho_local)
                  /\ AcaoDe(h) # A_add => n \notin DOMAIN Tabela(Get(h.gravado))

\* On a manifest holding foo and bar: a remove of foo that writes, a remove
\* of foo again that does not, and an unknown action.
C28_Witness ==
    /\ Len(hist) = 3
    /\ LeuTabela(hist[1])
    /\ DOMAIN Tabela(Get(hist[1].lido)) = {"foo", "bar"}
    /\ EhRemove(hist[1]) /\ hist[1].cmd.nome = Some("foo")
    /\ IsSome(hist[1].gravado)
    /\ DOMAIN Tabela(Get(hist[1].gravado)) = {"bar"}
    /\ Get(hist[1].gravado).campos = CamposDoc
    /\ EhRemove(hist[2]) /\ hist[2].cmd.nome = Some("foo")
    /\ hist[2].gravado = None
    /\ hist[3].res = "acao_desconhecida"
    /\ hist[3].depois = hist[1].gravado


----------------------------------------------------------------------------
(* The toolchain gate of run comes before the rebuild decision *)

\* The run would not invoke the compiler: what the rebuild decision says on
\* the filesystem the run started on.
NaoCompilaria(h) ==
    ~precisa_compilar(h.fs0, cwd,
                      IsSome(h.arquivo) /\ extension(Get(h.arquivo)) = Some("pbc"),
                      h.no_build, h.force,
                      pbc_de_run(join(h.raiz, N("build")), h.arquivo, h.fontes), h.fontes)

\* C29 as stated: a run that would not invoke the compiler (skip-build set,
\* or the artifact up to date) and whose compiler is not resolved fails with
\* the compiler-not-found error and launches nothing.
C29_Original ==
    \A i \in 1..Len(hist) :
        LET h == hist[i] IN
        (/\ h.op = "run" /\ IsSome(h.tc)
         /\ ~Get(h.tc).compilador.encontrado
         /\ NaoCompilaria(h)) =>
            /\ h.res = "compilador_nao_encontrado"
            /\ h.lancados = <<>>

\* What holds of the code (C29): a run that would not invoke the compiler
\* and whose compiler path does not exist fails with the compiler-not-found
\* error and launches nothing; when the compiler path exists and the
\* interpreter path does not, it fails with the interpreter-not-found error
\* and launches nothing.
C29_PortaoAntesDaDecisao ==
    \A i \in 1..Len(hist) :
        LET h == hist[i] IN
        (h.op = "run" /\ IsSome(h.tc) /\ NaoCompilaria(h)) =>
            /\ ~exists(h.fs0, cwd, Get(h.tc).compilador.caminho) =>
                  (h.res = "compilador_nao_encontrado" /\ h.lancados = <<>>)
            /\ (/\ exists(h.fs0, cwd, Get(h.tc).compilador.caminho)
                /\ ~exists(h.fs0, cwd, Get(h.tc).interpretador.caminho)) =>
                  (h.res = "interpretador_nao_encontrado" /\ h.lancados = <<>>)

\* A run with skip-build on an existing artifact whose compiler path does
\* not exist.
C29_Witness ==
    /\ Len(hist) = 1 /\ hist[1].op = "run"
    /\ hist[1].no_build
    /\ IsSome(hist[1].tc)
    /\ ~exists(hist[1].fs0, cwd, Get(hist[1].tc).compilador.caminho)
    /\ exists(hist[1].fs0, cwd, join(BuildT, NE("programa", "pbc")))
    /\ hist[1].arquivo = None
    /\ hist[1].res = "compilador_nao_encontrado"
    /\ hist[1].lancados = <<>>


----------------------------------------------------------------------------
(* run with an explicit .pbc artifact *)

\* The run started the interpreter on the given artifact and nothing else.
SoInterpretouODado(h) ==
    /\ Len(h.lancados) = 1
    /\ h.lancados[1].prog = "interpretador"
    /\ h.lancados[1].arqs = <<Get(h.arquivo)>>

====
